---------------------------- MODULE Spec2Model ----------------------------
(***************************************************************************)
(* pgcopy: the copy engine (internal/copy/engine.go) and the table list it *)
(* is driven by (internal/schema/config.go).                               *)
(*                                                                         *)
(* Strings that the engine assembles (SQL statements, error messages) are  *)
(* sequences of string pieces; Join gives the Go string.  The two          *)
(* databases are the environment: the source is a fixed catalog and fixed  *)
(* rows, the target is a mutable map from table to its rows, and every     *)
(* database call may fail while the fault budget lasts.                    *)
(***************************************************************************)
EXTENDS Integers, Sequences, FiniteSets, TLC

\* ------------------------------------------------------------------ bounds
\* schemas in a configuration
MaxSchemas == 2
\* tables in a configuration, all schemas together
MaxTables == 2
\* rows of every source table
MaxRows == 2
\* Copy invocations on one engine
MaxRuns == 2
\* faults during the life of one engine: database calls the environment lets
\* fail, and cancellations of the caller's context
MaxFaults == 1
\* table operations during the life of one engine
MaxOps == 2
\* columns of a column list given to the query builders
MaxCols == 2

\* ------------------------------------------------------------ string tools
RECURSIVE Join(_)
Join(s) == IF s = <<>> THEN "" ELSE Head(s) \o Join(Tail(s))

Contains(s, x) == \E i \in 1..Len(s) : s[i] = x

RECURSIVE Flatten(_)
Flatten(ss) == IF ss = <<>> THEN <<>> ELSE Head(ss) \o Flatten(Tail(ss))

\* all sequences over S of length at most n
SeqsUpTo(S, n) == UNION {[1..k -> S] : k \in 0..n}

\* the nil error, and a nil map
Nil == <<>>
NoTransform == [c \in {} |-> <<>>]

\* --------------------------------------------------------- configuration
\* schema.Table values the configurations are built from
TableDefs ==
  { [Name |-> "users",  Ignore |-> <<"password_hash">>,
     Transform |-> [c \in {"email"} |-> <<"hash">>],
     Filter |-> "", Truncate |-> TRUE],
    [Name |-> "orders", Ignore |-> <<>>,
     Transform |-> [c \in {"id"} |-> <<"$1", " + 1000">>],
     Filter |-> "status != 'cancelled'", Truncate |-> FALSE],
    [Name |-> "orders", Ignore |-> <<"id", "user_id">>, Transform |-> NoTransform,
     Filter |-> "", Truncate |-> TRUE] }

SchemaNames == {"public"}

Schemas == [Name : SchemaNames, Tables : SeqsUpTo(TableDefs, MaxTables)]

RECURSIVE TableCount(_)
TableCount(schemas) ==
  IF schemas = <<>> THEN 0
  ELSE Len(Head(schemas).Tables) + TableCount(Tail(schemas))

Configs ==
  { c \in [Schemas : SeqsUpTo(Schemas, MaxSchemas)] : TableCount(c.Schemas) <= MaxTables }

TableInfo(schema, table) ==
  [Schema |-> schema.Name, Table |-> table.Name, Ignore |-> table.Ignore,
   Transform |-> table.Transform, Filter |-> table.Filter,
   Truncate |-> table.Truncate]

SchemaTables(schema) ==
  [j \in 1..Len(schema.Tables) |-> TableInfo(schema, schema.Tables[j])]

\* variant: the schemas are gone through last first
GetAllTablesLastFirst(c) ==
  Flatten([i \in 1..Len(c.Schemas) |->
             SchemaTables(c.Schemas[Len(c.Schemas) + 1 - i])])

GetAllTables(c) ==
  Flatten([i \in 1..Len(c.Schemas) |-> SchemaTables(c.Schemas[i])])

\* the table lists Copy can be given
TableLists == {GetAllTables(c) : c \in Configs}

\* ------------------------------------------------- loading a configuration
\* the nil *Config and the zero DatabaseConfig
NoConfig == [nil |-> TRUE]

NoDatabase ==
  [Host |-> "", Port |-> 0, Database |-> "", Username |-> "",
   Password |-> <<>>, SSLMode |-> ""]

DefaultPort == 5432

\* the process environment os.ExpandEnv reads; a password is a sequence of
\* pieces, a piece "${NAME}" being a reference to the variable NAME
Environ ==
  [v \in {"${SOURCE_PASSWORD}", "${TARGET_PASSWORD}"} |->
     IF v = "${SOURCE_PASSWORD}" THEN "env_source_pass" ELSE "env_target_pass"]

EnvRefs == DOMAIN Environ \cup {"${PGCOPY_UNSET}"}

\* os.ExpandEnv: a reference becomes the variable's value, "" when unset
ExpandEnv(value) ==
  [i \in 1..Len(value) |->
     IF value[i] \in DOMAIN Environ THEN Environ[value[i]]
     ELSE IF value[i] \in EnvRefs THEN ""
     ELSE value[i]]

expandEnvVar(value) ==
  IF ~(\E i \in 1..Len(value) : value[i] \in EnvRefs) THEN value
  ELSE ExpandEnv(value)

\* expandEnvironmentVariables: the configuration with both passwords expanded
\* and the lines written to standard output
expandEnvironmentVariables(c) ==
  LET e == [c EXCEPT !.Source.Password =
                       IF Join(@) /= "" THEN expandEnvVar(@) ELSE @,
                     !.Target.Password =
                       IF Join(@) /= "" THEN expandEnvVar(@) ELSE @]
  IN [config |-> e,
      out |-> <<Join(e.Source.Password), Join(e.Target.Password)>>]

\* variant: the defaults replace what the section says
validateDatabaseConfigOverwrite(db, name) ==
  IF db.Host = "" /\ db.Database = "" /\ db.Username = ""
  THEN [db |-> db, err |-> Nil]
  ELSE IF db.Host = ""
  THEN [db |-> db, err |-> <<name, " database: host is required">>]
  ELSE IF db.Database = ""
  THEN [db |-> db, err |-> <<name, " database: database name is required">>]
  ELSE IF db.Username = ""
  THEN [db |-> db, err |-> <<name, " database: username is required">>]
  ELSE [db |-> [db EXCEPT !.Port = DefaultPort, !.SSLMode = "prefer"],
        err |-> Nil]

validateDatabaseConfig(db, name) ==
  IF db.Host = "" /\ db.Database = "" /\ db.Username = ""
  THEN [db |-> db, err |-> Nil]
  ELSE IF db.Host = ""
  THEN [db |-> db, err |-> <<name, " database: host is required">>]
  ELSE IF db.Database = ""
  THEN [db |-> db, err |-> <<name, " database: database name is required">>]
  ELSE IF db.Username = ""
  THEN [db |-> db, err |-> <<name, " database: username is required">>]
  ELSE [db |-> [db EXCEPT !.Port = IF @ = 0 THEN DefaultPort ELSE @,
                          !.SSLMode = IF @ = "" THEN "prefer" ELSE @],
        err |-> Nil]

\* validateConfig, the body of the loop over a schema's tables
RECURSIVE tableErrors(_, _, _)
tableErrors(schema, tbls, j) ==
  IF tbls = <<>> THEN Nil
  ELSE LET t == Head(tbls)
           both == {k \in 1..Len(t.Ignore) : t.Ignore[k] \in DOMAIN t.Transform}
       IN IF t.Name = ""
          THEN <<"table ", ToString(j), " in schema '", schema.Name,
                 "' has no name">>
          ELSE IF both /= {}
          THEN <<"table '", t.Name, "' in schema '", schema.Name, "': column '",
                 t.Ignore[CHOOSE k \in both : \A l \in both : k <= l],
                 "' cannot be both ignored and transformed">>
          ELSE tableErrors(schema, Tail(tbls), j + 1)

\* validateConfig, the body of the loop over the schemas
RECURSIVE schemaErrors(_, _)
schemaErrors(schemas, i) ==
  IF schemas = <<>> THEN Nil
  ELSE LET s == Head(schemas)
       IN IF s.Name = ""
          THEN <<"schema ", ToString(i), " has no name">>
          ELSE IF Len(s.Tables) = 0
          THEN <<"schema '", s.Name, "' has no tables">>
          ELSE IF tableErrors(s, s.Tables, 0) /= Nil
          THEN tableErrors(s, s.Tables, 0)
          ELSE schemaErrors(Tail(schemas), i + 1)

\* variant: a configuration without schemas passes
validateConfigNoSchemas(c) ==
  LET s == validateDatabaseConfig(c.Source, "source")
      t == validateDatabaseConfig(c.Target, "target")
  IN IF s.err /= Nil THEN [config |-> c, err |-> s.err]
     ELSE IF t.err /= Nil
     THEN [config |-> [c EXCEPT !.Source = s.db], err |-> t.err]
     ELSE [config |-> [c EXCEPT !.Source = s.db, !.Target = t.db],
           err |-> schemaErrors(c.Schemas, 0)]

\* validateConfig: the configuration as validation leaves it, and the error
validateConfig(c) ==
  LET s == validateDatabaseConfig(c.Source, "source")
      t == validateDatabaseConfig(c.Target, "target")
  IN IF s.err /= Nil THEN [config |-> c, err |-> s.err]
     ELSE IF t.err /= Nil
     THEN [config |-> [c EXCEPT !.Source = s.db], err |-> t.err]
     ELSE LET v == [c EXCEPT !.Source = s.db, !.Target = t.db]
          IN IF Len(c.Schemas) = 0
             THEN [config |-> v, err |-> <<"no schemas defined">>]
             ELSE [config |-> v, err |-> schemaErrors(c.Schemas, 0)]

\* what the named file is to LoadConfig: a file os.ReadFile cannot read, bytes
\* yaml.Unmarshal cannot parse, or the Config yaml.Unmarshal fills
Unreadable == [unreadable |-> TRUE]

Malformed == [malformed |-> TRUE]

\* an error of os.ReadFile or of yaml.Unmarshal, as the library words it
LibError(call) == <<"error (", call, ")">>

\* LoadConfig of the file f
LoadConfig(f) ==
  IF f = Unreadable
  THEN [config |-> NoConfig,
        err |-> <<"failed to read config file: ">> \o LibError("read"),
        out |-> <<>>]
  ELSE IF f = Malformed
  THEN [config |-> NoConfig,
        err |-> <<"failed to parse YAML config: ">> \o LibError("yaml"),
        out |-> <<>>]
  ELSE LET e == expandEnvironmentVariables(f)
           v == validateConfig(e.config)
       IN IF v.err /= Nil
          THEN [config |-> NoConfig,
                err |-> <<"invalid configuration: ">> \o v.err, out |-> e.out]
          ELSE [config |-> v.config, err |-> Nil, out |-> e.out]

\* DatabaseConfig.BuildConnectionString
BuildConnectionString(db) ==
  IF db.Host = "" THEN <<>>
  ELSE <<"host=", db.Host, " port=", ToString(db.Port), " dbname=",
         db.Database, " user=", db.Username>>
       \o (IF Join(db.Password) /= ""
           THEN <<" password=">> \o db.Password ELSE <<>>)
       \o (IF db.SSLMode /= "" THEN <<" sslmode=", db.SSLMode>> ELSE <<>>)

\* ------------------------------------------------------------ SQL assembly
formatColumns(columns) ==
  IF Len(columns) = 0 THEN <<>>
  ELSE Flatten([i \in 1..Len(columns) |->
                  IF i = 1 THEN <<columns[i]>> ELSE <<", ", columns[i]>>])

\* variant: only the first occurrence is replaced
ReplaceAllFirstOnly(s, old, new) ==
  [i \in 1..Len(s) |->
     IF s[i] = old /\ (\A j \in 1..(i - 1) : s[j] /= old) THEN new ELSE s[i]]

\* strings.ReplaceAll(transformation, "$1", columnName)
ReplaceAll(s, old, new) == [i \in 1..Len(s) |-> IF s[i] = old THEN new ELSE s[i]]

\* variant: the built-in names are matched whatever their case
expandTransformationAnyCase(transformation, columnName) ==
  CASE transformation \in {<<"hash">>, <<"HASH">>} ->
         <<"encode(sha256(", columnName, "::text::bytea), 'hex')">>
    [] transformation = <<"redact">> -> <<"'***REDACTED***'">>
    [] transformation = <<"anonymize">> ->
         <<"'anon-' || encode(sha256(", columnName, "::text::bytea), 'hex')">>
    [] transformation = <<"nullify">> -> <<"NULL">>
    [] transformation = <<"default">> -> <<"COALESCE(", columnName, ", NULL)">>
    [] OTHER -> ReplaceAll(transformation, "$1", columnName)

expandTransformation(transformation, columnName) ==
  CASE transformation = <<"hash">> ->
         <<"encode(sha256(", columnName, "::text::bytea), 'hex')">>
    [] transformation = <<"redact">> -> <<"'***REDACTED***'">>
    [] transformation = <<"anonymize">> ->
         <<"'anon-' || encode(sha256(", columnName, "::text::bytea), 'hex')">>
    [] transformation = <<"nullify">> -> <<"NULL">>
    [] transformation = <<"default">> -> <<"COALESCE(", columnName, ", NULL)">>
    [] OTHER -> ReplaceAll(transformation, "$1", columnName)

NoColumnsError(table) ==
  <<"no columns to copy for table ", table.Schema, ".", table.Table>>

\* variant: the expansion is projected without its alias
columnListNoAlias(table, columns) ==
  [i \in 1..Len(columns) |->
     IF columns[i] \in DOMAIN table.Transform
     THEN Join(expandTransformation(table.Transform[columns[i]], columns[i]))
     ELSE columns[i]]

columnList(table, columns) ==
  [i \in 1..Len(columns) |->
     IF columns[i] \in DOMAIN table.Transform
     THEN Join(expandTransformation(table.Transform[columns[i]], columns[i])
               \o <<" AS ", columns[i]>>)
     ELSE columns[i]]

\* variant: the extraction statement is built for an empty column list too
buildSourceCopyQueryEmptyOk(table, columns) ==
  [query |->
     IF table.Filter /= ""
     THEN <<"COPY (SELECT ">> \o formatColumns(columnList(table, columns))
          \o <<" FROM ", table.Schema, ".", table.Table,
               " WHERE ", table.Filter, ") TO STDOUT">>
     ELSE <<"COPY (SELECT ">> \o formatColumns(columnList(table, columns))
          \o <<" FROM ", table.Schema, ".", table.Table, ") TO STDOUT">>,
   err |-> Nil]

\* variant: a column of the ignore list is left out of the projection
buildSourceCopyQueryHonoursIgnore(table, columns) ==
  LET kept(c) == ~Contains(table.Ignore, c)
      cols == SelectSeq(columns, kept)
  IN IF Len(columns) = 0
     THEN [query |-> <<>>, err |-> NoColumnsError(table)]
     ELSE [query |->
             IF table.Filter /= ""
             THEN <<"COPY (SELECT ">> \o formatColumns(columnList(table, cols))
                  \o <<" FROM ", table.Schema, ".", table.Table,
                       " WHERE ", table.Filter, ") TO STDOUT">>
             ELSE <<"COPY (SELECT ">> \o formatColumns(columnList(table, cols))
                  \o <<" FROM ", table.Schema, ".", table.Table, ") TO STDOUT">>,
           err |-> Nil]

\* variant: the filter is never put into the statement
buildSourceCopyQueryNoFilter(table, columns) ==
  IF Len(columns) = 0
  THEN [query |-> <<>>, err |-> NoColumnsError(table)]
  ELSE [query |-> <<"COPY (SELECT ">> \o formatColumns(columnList(table, columns))
                  \o <<" FROM ", table.Schema, ".", table.Table, ") TO STDOUT">>,
        err |-> Nil]

\* variant: the WHERE clause is written whatever the filter is
buildSourceCopyQueryWhereAlways(table, columns) ==
  IF Len(columns) = 0
  THEN [query |-> <<>>, err |-> NoColumnsError(table)]
  ELSE [query |->
          <<"COPY (SELECT ">> \o formatColumns(columnList(table, columns))
          \o <<" FROM ", table.Schema, ".", table.Table,
               " WHERE ", table.Filter, ") TO STDOUT">>,
        err |-> Nil]

buildSourceCopyQuery(table, columns) ==
  IF Len(columns) = 0
  THEN [query |-> <<>>, err |-> NoColumnsError(table)]
  ELSE [query |->
          IF table.Filter /= ""
          THEN <<"COPY (SELECT ">> \o formatColumns(columnList(table, columns))
               \o <<" FROM ", table.Schema, ".", table.Table,
                    " WHERE ", table.Filter, ") TO STDOUT">>
          ELSE <<"COPY (SELECT ">> \o formatColumns(columnList(table, columns))
               \o <<" FROM ", table.Schema, ".", table.Table, ") TO STDOUT">>,
        err |-> Nil]

\* variant: the column list is not looked at
buildTargetCopyQueryUnchecked(table, columns) ==
  [query |-> <<"COPY ", table.Schema, ".", table.Table, " (">>
             \o formatColumns(columns) \o <<") FROM STDIN">>,
   err |-> Nil]

\* variant: the load statement lists what the extraction projects
buildTargetCopyQueryProjected(table, columns) ==
  IF Len(columns) = 0
  THEN [query |-> <<>>, err |-> NoColumnsError(table)]
  ELSE [query |-> <<"COPY ", table.Schema, ".", table.Table, " (">>
                  \o formatColumns(columnList(table, columns))
                  \o <<") FROM STDIN">>,
        err |-> Nil]

buildTargetCopyQuery(table, columns) ==
  IF Len(columns) = 0
  THEN [query |-> <<>>, err |-> NoColumnsError(table)]
  ELSE [query |-> <<"COPY ", table.Schema, ".", table.Table, " (">>
                  \o formatColumns(columns) \o <<") FROM STDIN">>,
        err |-> Nil]

\* variant: schema and table change places in the statement
truncateQuerySwapped(t) ==
  <<"TRUNCATE TABLE ", t.Table, ".", t.Schema, " CASCADE">>

truncateQuery(t) ==
  <<"TRUNCATE TABLE ", t.Schema, ".", t.Table, " CASCADE">>

\* -------------------------------------------------------- the two databases
Key(table) == <<table.Schema, table.Table>>

DBTables == {<<"public", "users">>, <<"public", "orders">>}

\* information_schema.columns of the source, in ordinal order
SrcCatalog(key) ==
  CASE key = <<"public", "users">> -> <<"id", "email", "password_hash">>
    [] key = <<"public", "orders">> -> <<"id", "user_id">>
    [] OTHER -> <<>>

\* rows of a source table, identified by their number
SrcRows(key) == IF key \in DBTables THEN [i \in 1..MaxRows |-> i] ELSE <<>>

\* the source's evaluation of a WHERE predicate on a row
Sat(filter, row) ==
  CASE filter = "active = true" -> row % 2 = 1
    [] filter = "status != 'cancelled'" -> row > 1
    [] OTHER -> FALSE

\* tables that reference a table by a foreign key (TRUNCATE ... CASCADE)
Dependents(key) ==
  IF key = <<"public", "users">> THEN {<<"public", "orders">>} ELSE {}

\* the target executing TRUNCATE TABLE <schema>.<table> CASCADE
ExecTruncate(db, q) ==
  [k \in DOMAIN db |->
     IF k = <<q[2], q[4]>> \/ k \in Dependents(<<q[2], q[4]>>) THEN <<>> ELSE db[k]]

\* the source executing COPY (SELECT ... FROM s.t [WHERE f]) TO STDOUT
FromIdx(q) == CHOOSE i \in 1..Len(q) : q[i] = " FROM "

ExecExtract(q) ==
  LET i == FromIdx(q)
      key == <<q[i + 1], q[i + 3]>>
      keep(row) == IF q[i + 4] = " WHERE " THEN Sat(q[i + 5], row) ELSE TRUE
  IN SelectSeq(SrcRows(key), keep)

\* the target committing COPY s.t (...) FROM STDIN with the rows received
ExecLoad(db, q, rows) ==
  [k \in DOMAIN db |-> IF k = <<q[2], q[4]>> THEN db[k] \o rows ELSE db[k]]

\* rows the target holds before the engine runs: one old row per table
TargetInit == [k \in DBTables |-> <<0>>]

\* --------------------------------------------------------------- the engine
\* an error of a database call, as the driver reports it
DbError(call) == <<"db error (", call, ")">>

\* io.Pipe with the goroutine writing into it.  pstate is where the producer
\* goroutine is: "start" (spawned), "streaming" (inside CopyTo, between
\* writes), "writing" (blocked in w.Write until the chunk in slot is read),
\* "done" (returned).  wclosed is how the writer end was closed.
\* id tells the pipes apart: the number of the table operation that made it.
NoXfer == [pstate |-> "none", query |-> <<>>, todo |-> <<>>, slot |-> <<>>,
           wclosed |-> "open", werr |-> Nil, recv |-> <<>>, sent |-> <<>>,
           id |-> 0]

NewXfer(query, id) ==
  [NoXfer EXCEPT !.pstate = "start", !.query = query, !.id = id]

\* variant: a later close replaces what an earlier close left
pipeCloseLastWins(x, how, err) == [x EXCEPT !.wclosed = how, !.werr = err]

\* w.Close / w.CloseWithError: the first close decides what the reader sees
pipeClose(x, how, err) ==
  IF x.wclosed = "open" THEN [x EXCEPT !.wclosed = how, !.werr = err] ELSE x

\* CopyTo starts streaming the result of the extraction statement
prodBegin(x) == [x EXCEPT !.pstate = "streaming", !.todo = ExecExtract(x.query)]

\* variant: w.Write returns at once and the chunk waits in a buffer
prodWriteBuffered(x) ==
  [x EXCEPT !.slot = Append(x.slot, Head(x.todo)),
            !.todo = Tail(x.todo), !.sent = Append(x.sent, Head(x.todo))]

\* CopyTo hands the next row to w.Write, which blocks until it is read
prodWrite(x) ==
  [x EXCEPT !.pstate = "writing", !.slot = <<Head(x.todo)>>,
            !.todo = Tail(x.todo), !.sent = Append(x.sent, Head(x.todo))]

\* variant: the goroutine returns without closing the writer
prodFinishNoClose(x) == [x EXCEPT !.pstate = "done"]

\* CopyTo returned nil: only the deferred w.Close() runs
prodFinish(x) == [pipeClose(x, "eof", Nil) EXCEPT !.pstate = "done"]

\* variant: CopyTo's error is dropped, only the deferred w.Close() runs
prodFailCloseOnly(x, err) == [pipeClose(x, "eof", Nil) EXCEPT !.pstate = "done"]

\* CopyTo returned err: w.CloseWithError(...), then the deferred w.Close()
prodFail(x, err) ==
  [pipeClose(pipeClose(x, "err", <<"source copy failed: ">> \o err), "eof", Nil)
     EXCEPT !.pstate = "done"]

\* variant: the reader hands over what it reads most recent first
pipeReadNewestFirst(x) ==
  [x EXCEPT !.recv = <<x.slot[1]>> \o x.recv, !.slot = <<>>,
            !.pstate = "streaming"]

\* r.Read takes the chunk of the pending write, which lets w.Write return
pipeRead(x) ==
  [x EXCEPT !.recv = Append(x.recv, x.slot[1]), !.slot = <<>>,
            !.pstate = "streaming"]

\* the error a database call returns: the context's once it is cancelled
CallError(c, call) == IF c = "cancelled" THEN <<"context canceled">> ELSE DbError(call)

NoDryRun == [done |-> FALSE, err |-> Nil]

\* the source database when the engine is made
SourceInit == [k \in DBTables |-> SrcRows(k)]

\* nothing logged yet, and the fields printSummary logs: the counters, the
\* duration and the errors one by one
NoSummary == [logged |-> FALSE]

printSummary(st) ==
  [logged |-> TRUE,
   tables_processed |-> st.TablesProcessed,
   rows_copied |-> st.RowsCopied,
   errors |-> Len(st.Errors),
   duration |-> st.EndTime - st.StartTime,
   listed |-> st.Errors]

\* variant: the source connection stays open when the target's fails
NewEngineLeaky(sourceOk, targetOk) ==
  IF ~sourceOk
  THEN [made |-> FALSE, conns |-> [source |-> "nil", target |-> "nil"],
        err |-> <<"failed to connect to source database: ">> \o DbError("connect")]
  ELSE IF ~targetOk
  THEN [made |-> FALSE, conns |-> [source |-> "open", target |-> "nil"],
        err |-> <<"failed to connect to target database: ">> \o DbError("connect")]
  ELSE [made |-> TRUE, conns |-> [source |-> "open", target |-> "open"],
        err |-> Nil]

\* NewEngine, given whether db.NewConnection succeeds for each side: whether
\* an engine is returned, the connections that were made, and the error
NewEngine(sourceOk, targetOk) ==
  IF ~sourceOk
  THEN [made |-> FALSE, conns |-> [source |-> "nil", target |-> "nil"],
        err |-> <<"failed to connect to source database: ">> \o DbError("connect")]
  ELSE IF ~targetOk
  THEN [made |-> FALSE, conns |-> [source |-> "closed", target |-> "nil"],
        err |-> <<"failed to connect to target database: ">> \o DbError("connect")]
  ELSE [made |-> TRUE, conns |-> [source |-> "open", target |-> "open"],
        err |-> Nil]

\* Engine.Close: Close is called on each connection that is not nil
Close(c) ==
  [source |-> IF c.source /= "nil" THEN "closed" ELSE c.source,
   target |-> IF c.target /= "nil" THEN "closed" ELSE c.target]

NewStats(t) == [TablesProcessed |-> 0, RowsCopied |-> 0, Errors |-> <<>>,
                StartTime |-> t, EndTime |-> 0]

addError(st, err) == [st EXCEPT !.Errors = Append(st.Errors, err)]

incrementTablesProcessed(st) ==
  [st EXCEPT !.TablesProcessed = st.TablesProcessed + 1]

\* variant: the counter is overwritten with the last table's count
incrementRowsCopiedAssign(st, count) == [st EXCEPT !.RowsCopied = count]

incrementRowsCopied(st, count) == [st EXCEPT !.RowsCopied = st.RowsCopied + count]

VARIABLES
  pc,          \* where the engine's own thread is
  tables,      \* Copy: the list GetAllTables returned
  idx,         \* Copy: position of the range loop
  stats,       \* Engine.stats
  columns,     \* copyTable: resolved column list
  sourceQuery, \* copyTable: extraction statement
  targetQuery, \* copyTable: load statement
  result,      \* the error copyTable returns to Copy
  copyRet,     \* what the last Copy returned
  runs,        \* Copy invocations so far
  faults,      \* database calls that have failed so far
  ops,         \* copyTable calls so far
  tgt,         \* target database: table -> rows
  held,        \* pool connections held by executeCopyWithProtocol
  xfer,        \* pipe and producer goroutine of the running transfer
  leaked,      \* producers still alive after their transfer returned
  now,         \* the clock time.Now reads
  started,     \* history: tables copyTable was entered for, this run
  results,     \* history: what copyTable returned for each, this run
  issued,      \* history: steps of the current table operation
  before,      \* history: target database when the table operation began
  reported,    \* history: row count the current table's load returned
  loaded,      \* history: rows the current table's load committed
  okRows,      \* history: sum of the row counts of succeeded tables
  failedSides, \* history: sides of the current transfer whose call failed
  ctx,         \* the context the caller passes: "live" or "cancelled"
  dryRet,      \* what DryRun returned, until Copy is next called
  cliPc,       \* where the pgcopy command is
  flags,       \* --source and --target, "" when not given
  file,        \* the configuration file as yaml.Unmarshal reads it
  config,      \* runCopy: the *Config LoadConfig returned
  cmdErr,      \* the error the command ends with
  output,      \* lines written to standard output
  dsn,         \* the connection strings NewEngine was given
  conns,       \* Engine.sourceConn, Engine.targetConn: "nil", "open", "closed"
  src,         \* source database: table -> rows
  summary      \* what printSummary logged at the end of this run

vars == <<pc, tables, idx, stats, columns, sourceQuery, targetQuery, result,
          copyRet, runs, faults, ops, tgt, held, xfer, leaked, now,
          started, results, issued, before, reported, loaded, okRows,
          failedSides, ctx, dryRet, cliPc, flags, file, config, cmdErr,
          output, dsn, conns, src, summary>>

\* the flags cobra marks required, in the order it goes through them
RequiredFlags == <<"file", "source", "target">>

\* the flags of a command line that gives the file and both connection
\* strings: the values of the flag variables and the names of the flags set
CliFlags ==
  [source |-> "postgres://cli_user@cli-source/app",
   target |-> "postgres://cli_user@cli-target/app",
   file |-> "config.yaml",
   set |-> {"file", "source", "target"}]

NoFlags == [source |-> "", target |-> ""]

\* the two arguments runCopy gives NewEngine
ConnStrings(f) == [source |-> f.source, target |-> f.target]

\* NewEngine has returned an engine.  The command's steps up to there are
\* followed in ConfigSpec and its last, the deferred Close, in TransferSpec;
\* here the caller has the engine and goes on using it, and the table list
\* of the configuration is drawn when Copy is called.
Init ==
  /\ pc = "idle"
  /\ tables = <<>>
  /\ idx = 1
  /\ stats = NewStats(0)
  /\ columns = <<>>
  /\ sourceQuery = <<>>
  /\ targetQuery = <<>>
  /\ result = Nil
  /\ copyRet = [done |-> FALSE, err |-> Nil]
  /\ runs = 0
  /\ faults = 0
  /\ ops = 0
  /\ tgt = TargetInit
  /\ held = [source |-> 0, target |-> 0]
  /\ xfer = NoXfer
  /\ leaked = <<>>
  /\ now = 1
  /\ started = <<>>
  /\ results = <<>>
  /\ issued = <<>>
  /\ before = TargetInit
  /\ reported = 0
  /\ loaded = <<>>
  /\ okRows = 0
  /\ failedSides = {}
  /\ ctx = "live"
  /\ dryRet = NoDryRun
  /\ cliPc = "engine"
  /\ flags = CliFlags
  /\ file = NoConfig
  /\ config = NoConfig
  /\ cmdErr = Nil
  /\ output = <<>>
  /\ dsn = ConnStrings(CliFlags)
  /\ conns = [source |-> "open", target |-> "open"]
  /\ src = SourceInit
  /\ summary = NoSummary

\* ------------------------------------------------------------------ actions
table == tables[idx]

\* variant: the ignore list is not looked at
getTableColumnsAll(t) == SrcCatalog(Key(t))

getTableColumns(t) ==
  LET kept(c) == ~Contains(t.Ignore, c) IN SelectSeq(SrcCatalog(Key(t)), kept)

\* variants: the truncate flag is not honoured
firstStepNever(t) == "columns"

firstStepAlways(t) == "truncate"

\* copyTable: the truncate comes first, and only when the table asks for it
firstStep(t) == IF t.Truncate THEN "truncate" ELSE "columns"

\* variant: a failed truncate is logged and the copy goes on
afterStepTruncateIgnored(step, err) ==
  IF err /= Nil /\ step /= "truncate" THEN "record"
  ELSE CASE step = "truncate" -> "columns"
         [] step = "columns" -> "build"
         [] step = "build" -> "acquireSource"
         [] step = "acquireSource" -> "acquireTarget"
         [] step = "acquireTarget" -> "copyFrom"
         [] OTHER -> "record"

\* variant: a failed column lookup is followed by the query builders
afterStepColumnsIgnored(step, err) ==
  IF err /= Nil /\ step /= "columns" THEN "record"
  ELSE CASE step = "truncate" -> "columns"
         [] step = "columns" -> "build"
         [] step = "build" -> "acquireSource"
         [] step = "acquireSource" -> "acquireTarget"
         [] step = "acquireTarget" -> "copyFrom"
         [] OTHER -> "record"

\* copyTable: every step returns its error at once, else the next step runs
afterStep(step, err) ==
  IF err /= Nil THEN "record"
  ELSE CASE step = "truncate" -> "columns"
         [] step = "columns" -> "build"
         [] step = "build" -> "acquireSource"
         [] step = "acquireSource" -> "acquireTarget"
         [] step = "acquireTarget" -> "copyFrom"
         [] OTHER -> "record"

\* the steps of copyTable and of the executeCopyWithProtocol it ends with
TableSteps == {"truncate", "columns", "build", "acquireSource", "acquireTarget",
               "copyFrom", "loading"}

\* Copy's handling of what copyTable returned
recordOutcome(st, err) ==
  IF err /= Nil THEN addError(st, err) ELSE incrementTablesProcessed(st)

\* variant: the loop is left at the first table that fails
nextIndexBreak(i, err) == IF err /= Nil THEN Len(tables) + 1 ELSE i + 1

\* the range loop goes on to the next table whatever copyTable returned
nextIndex(i, err) == i + 1

\* variant: Copy reports the first recorded error
copyReturnFirstError(st) == IF st.Errors /= <<>> THEN st.Errors[1] ELSE Nil

\* Copy's return value
copyReturn(st) == Nil

\* variant: only the target connection goes back to its pool
releaseBothTargetOnly(h) == [h EXCEPT !.target = h.target - 1]

\* deferred Release calls of executeCopyWithProtocol
releaseBoth(h) == [source |-> h.source - 1, target |-> h.target - 1]

runnerLocals == <<columns, sourceQuery, targetQuery>>
histRun == <<started, results>>
histTable == <<issued, before, reported, loaded>>
command == <<cliPc, flags, file, config, cmdErr, output, dsn, conns>>
caller == <<ctx, dryRet, command, src, summary>>

\* the goroutine's read of the connection from a released handle panicked
panicked(x) == [x EXCEPT !.pstate = "panicked"]

\* no goroutine has panicked: a panic in any goroutine ends the process, and
\* nothing of the program runs after it
alive == \A i \in 1..Len(leaked) : leaked[i].pstate /= "panicked"

\* a database call fails when the environment makes it fail or the context
\* it was given is cancelled
mayFail == ctx = "cancelled" \/ faults < MaxFaults
faultsAfter == IF ctx = "cancelled" THEN faults ELSE faults + 1

\* Engine.Copy is called: tables := config.GetAllTables().  The runs and the
\* copyTable calls that are followed are bounded, each and together.
Copy(list) ==
  /\ pc = "idle"
  /\ alive
  /\ runs < MaxRuns
  /\ ops + Len(list) <= MaxOps
  /\ runs + ops + Len(list) <= MaxOps + 1
  /\ tables' = list
  /\ idx' = 1
  /\ pc' = "loop"
  /\ runs' = runs + 1
  /\ copyRet' = [done |-> FALSE, err |-> Nil]
  /\ started' = <<>>
  /\ results' = <<>>
  /\ dryRet' = NoDryRun
  /\ summary' = NoSummary
  /\ UNCHANGED <<stats, runnerLocals, result, faults, ops, tgt, held, xfer,
                 leaked, now, histTable, okRows, failedSides, ctx, command, src>>

\* the loop takes the next table and calls copyTable
StartTable ==
  /\ pc = "loop"
  /\ alive
  /\ idx <= Len(tables)
  /\ pc' = firstStep(table)
  /\ started' = Append(started, table)
  /\ ops' = ops + 1
  /\ UNCHANGED <<tables, idx, stats, runnerLocals, result, copyRet, runs,
                 faults, tgt, held, xfer, leaked, now, results, histTable,
                 okRows, failedSides, caller>>

\* variant: the truncate is executed on the source's pool
TruncateOkOnSource ==
  /\ pc = "truncate"
  /\ alive
  /\ ctx = "live"
  /\ src' = ExecTruncate(src, truncateQuery(table))
  /\ issued' = Append(issued, "truncate")
  /\ pc' = afterStep("truncate", Nil)
  /\ UNCHANGED <<tables, idx, stats, runnerLocals, result, copyRet, runs, ops,
                 faults, tgt, held, xfer, leaked, now, histRun, before,
                 reported, loaded, okRows, failedSides, ctx, dryRet, command,
                 summary>>

\* copyTable: truncateTable succeeds
TruncateOk ==
  /\ pc = "truncate"
  /\ alive
  /\ ctx = "live"
  /\ tgt' = ExecTruncate(tgt, truncateQuery(table))
  /\ issued' = Append(issued, "truncate")
  /\ pc' = afterStep("truncate", Nil)
  /\ UNCHANGED <<tables, idx, stats, runnerLocals, result, copyRet, runs, ops,
                 faults, held, xfer, leaked, now, histRun, before, reported,
                 loaded, okRows, failedSides, caller>>

\* copyTable: truncateTable fails, copyTable returns
TruncateFail ==
  /\ pc = "truncate"
  /\ alive
  /\ mayFail
  /\ faults' = faultsAfter
  /\ issued' = Append(issued, "truncate failed")
  /\ result' = <<"failed to truncate table ", table.Schema, ".", table.Table,
                 ": ", "failed to execute truncate: ">> \o CallError(ctx, "truncate")
  /\ pc' = afterStep("truncate", result')
  /\ UNCHANGED <<tables, idx, stats, runnerLocals, copyRet, runs, ops, tgt,
                 held,
                 xfer, leaked, now, histRun, before, reported, loaded,
                 okRows, failedSides, caller>>

\* copyTable: getTableColumns returns the column list
ColumnsOk ==
  /\ pc = "columns"
  /\ alive
  /\ ctx = "live"
  /\ columns' = getTableColumns(table)
  /\ issued' = Append(issued, "catalog")
  /\ pc' = afterStep("columns", Nil)
  /\ UNCHANGED <<tables, idx, stats, sourceQuery, targetQuery, result, copyRet,
                 runs, ops, faults, tgt, held, xfer, leaked, now, histRun, before,
                 reported, loaded, okRows, failedSides, caller>>

\* copyTable: the catalog query fails, copyTable returns
ColumnsFail ==
  /\ pc = "columns"
  /\ alive
  /\ mayFail
  /\ faults' = faultsAfter
  /\ issued' = Append(issued, "catalog failed")
  /\ result' = <<"failed to get table columns: ">> \o CallError(ctx, "catalog")
  /\ pc' = afterStep("columns", result')
  /\ UNCHANGED <<tables, idx, stats, runnerLocals, copyRet, runs, ops, tgt,
                 held,
                 xfer, leaked, now, histRun, before, reported, loaded,
                 okRows, failedSides, caller>>

\* copyTable: buildSourceCopyQuery, then buildTargetCopyQuery
BuildQueries ==
  /\ pc = "build"
  /\ alive
  /\ LET s == buildSourceCopyQuery(table, columns)
         t == buildTargetCopyQuery(table, columns)
     IN IF s.err /= Nil
        THEN /\ result' = <<"failed to build source copy query: ">> \o s.err
             /\ sourceQuery' = s.query
             /\ UNCHANGED targetQuery
        ELSE IF t.err /= Nil
        THEN /\ result' = <<"failed to build target copy query: ">> \o t.err
             /\ sourceQuery' = s.query
             /\ UNCHANGED targetQuery
        ELSE /\ sourceQuery' = s.query
             /\ targetQuery' = t.query
             /\ UNCHANGED result
  /\ pc' = afterStep("build", result')
  /\ issued' = Append(issued, "compile")
  /\ UNCHANGED <<tables, idx, stats, columns, copyRet, runs, ops, faults,
                 tgt, held,
                 xfer, leaked, now, histRun, before, reported, loaded,
                 okRows, failedSides, caller>>

\* executeCopyWithProtocol: the source pool hands out a connection
AcquireSourceOk ==
  /\ pc = "acquireSource"
  /\ alive
  /\ ctx = "live"
  /\ held' = [held EXCEPT !.source = held.source + 1]
  /\ pc' = afterStep("acquireSource", Nil)
  /\ UNCHANGED <<tables, idx, stats, runnerLocals, result, copyRet, runs, ops,
                 faults, tgt, xfer, leaked, now, histRun, histTable, okRows,
                 failedSides, caller>>

AcquireSourceFail ==
  /\ pc = "acquireSource"
  /\ alive
  /\ mayFail
  /\ faults' = faultsAfter
  /\ result' = <<"failed to acquire source connection: ">> \o CallError(ctx, "acquire")
  /\ pc' = afterStep("acquireSource", result')
  /\ UNCHANGED <<tables, idx, stats, runnerLocals, copyRet, runs, ops, tgt,
                 held,
                 xfer, leaked, now, histRun, histTable, okRows, failedSides,
                 caller>>

\* the target pool hands out a connection; io.Pipe(); go func() {...}()
AcquireTargetOk ==
  /\ pc = "acquireTarget"
  /\ alive
  /\ ctx = "live"
  /\ held' = [held EXCEPT !.target = held.target + 1]
  /\ xfer' = NewXfer(sourceQuery, ops)
  /\ pc' = afterStep("acquireTarget", Nil)
  /\ UNCHANGED <<tables, idx, stats, runnerLocals, result, copyRet, runs, ops,
                 faults, tgt, leaked, now, histRun, histTable, okRows,
                 failedSides, caller>>

\* the deferred sourceConn.Release() runs on this return
AcquireTargetFail ==
  /\ pc = "acquireTarget"
  /\ alive
  /\ mayFail
  /\ faults' = faultsAfter
  /\ held' = [held EXCEPT !.source = held.source - 1]
  /\ result' = <<"failed to acquire target connection: ">> \o CallError(ctx, "acquire")
  /\ pc' = afterStep("acquireTarget", result')
  /\ UNCHANGED <<tables, idx, stats, runnerLocals, copyRet, runs, ops, tgt,
                 xfer,
                 leaked, now, histRun, histTable, okRows, failedSides, caller>>

\* ---- the producer goroutine of the running transfer
inTransfer == pc \in {"copyFrom", "loading"}

ProdBegin ==
  /\ inTransfer
  /\ alive
  /\ xfer.pstate = "start"
  /\ ctx = "live"
  /\ xfer' = prodBegin(xfer)
  /\ issued' = Append(issued, "extract")
  /\ UNCHANGED <<pc, tables, idx, stats, runnerLocals, result, copyRet, runs,
                 ops,
                 faults, tgt, held, leaked, now, histRun, before, reported,
                 loaded, okRows, failedSides, caller>>

ProdBeginFail ==
  /\ inTransfer
  /\ alive
  /\ xfer.pstate = "start"
  /\ mayFail
  /\ faults' = faultsAfter
  /\ xfer' = prodFail(xfer, CallError(ctx, "extract"))
  /\ issued' = Append(issued, "extract")
  /\ failedSides' = failedSides \cup {"source"}
  /\ UNCHANGED <<pc, tables, idx, stats, runnerLocals, result, copyRet, runs,
                 ops,
                 tgt, held, leaked, now, histRun, before, reported, loaded,
                 okRows, caller>>

ProdWrite ==
  /\ inTransfer
  /\ alive
  /\ xfer.pstate = "streaming"
  /\ xfer.todo /= <<>>
  /\ xfer' = prodWrite(xfer)
  /\ UNCHANGED <<pc, tables, idx, stats, runnerLocals, result, copyRet, runs,
                 ops,
                 faults, tgt, held, leaked, now, histRun, histTable, okRows,
                 failedSides, caller>>

ProdFail ==
  /\ inTransfer
  /\ alive
  /\ xfer.pstate = "streaming"
  /\ mayFail
  /\ faults' = faultsAfter
  /\ xfer' = prodFail(xfer, CallError(ctx, "extract"))
  /\ failedSides' = failedSides \cup {"source"}
  /\ UNCHANGED <<pc, tables, idx, stats, runnerLocals, result, copyRet, runs,
                 ops,
                 tgt, held, leaked, now, histRun, histTable, okRows, caller>>

\* variant: the goroutine adds the rows it wrote to the engine's counters
ProdFinishCounting ==
  /\ inTransfer
  /\ alive
  /\ xfer.pstate = "streaming"
  /\ xfer.todo = <<>>
  /\ xfer' = prodFinish(xfer)
  /\ stats' = incrementRowsCopied(stats, Len(xfer.sent))
  /\ UNCHANGED <<pc, tables, idx, runnerLocals, result, copyRet, runs,
                 ops,
                 faults, tgt, held, leaked, now, histRun, histTable, okRows,
                 failedSides, caller>>

ProdFinish ==
  /\ inTransfer
  /\ alive
  /\ xfer.pstate = "streaming"
  /\ xfer.todo = <<>>
  /\ xfer' = prodFinish(xfer)
  /\ UNCHANGED <<pc, tables, idx, stats, runnerLocals, result, copyRet, runs,
                 ops,
                 faults, tgt, held, leaked, now, histRun, histTable, okRows,
                 failedSides, caller>>

\* ---- the consumer: CopyFrom on the engine's own thread
CopyFromBegin ==
  /\ pc = "copyFrom"
  /\ alive
  /\ pc' = "loading"
  /\ issued' = Append(issued, "load")
  /\ UNCHANGED <<tables, idx, stats, runnerLocals, result, copyRet, runs, ops,
                 faults, tgt, held, xfer, leaked, now, histRun, before,
                 reported, loaded, okRows, failedSides, caller>>

ConsRead ==
  /\ pc = "loading"
  /\ alive
  /\ xfer.slot /= <<>>
  /\ xfer' = pipeRead(xfer)
  /\ UNCHANGED <<pc, tables, idx, stats, runnerLocals, result, copyRet, runs,
                 ops,
                 faults, tgt, held, leaked, now, histRun, histTable, okRows,
                 failedSides, caller>>

\* the reader sees EOF: the target commits, CopyFrom returns the row count,
\* incrementRowsCopied, return nil
ConsEOF ==
  /\ pc = "loading"
  /\ alive
  /\ xfer.slot = <<>>
  /\ xfer.wclosed = "eof"
  /\ tgt' = ExecLoad(tgt, targetQuery, xfer.recv)
  /\ reported' = Len(xfer.recv)
  /\ loaded' = xfer.recv
  /\ stats' = incrementRowsCopied(stats, Len(xfer.recv))
  /\ result' = Nil
  /\ held' = releaseBoth(held)
  /\ xfer' = NoXfer
  /\ pc' = "record"
  /\ UNCHANGED <<tables, idx, runnerLocals, copyRet, runs, ops, faults,
                 leaked, now,
                 histRun, issued, before, okRows, failedSides, caller>>

\* the reader sees the producer's error: the load is aborted
ConsReadErr ==
  /\ pc = "loading"
  /\ alive
  /\ xfer.slot = <<>>
  /\ xfer.wclosed = "err"
  /\ result' = <<"target copy failed: ", "COPY from stdin failed: ">> \o xfer.werr
  /\ held' = releaseBoth(held)
  /\ xfer' = NoXfer
  /\ pc' = "record"
  /\ UNCHANGED <<tables, idx, stats, runnerLocals, copyRet, runs, ops,
                 faults, tgt,
                 leaked, now, histRun, histTable, okRows, failedSides, caller>>

\* the load itself fails; a producer that has not returned stays behind
ConsFail ==
  /\ pc = "loading"
  /\ alive
  /\ mayFail
  /\ faults' = faultsAfter
  /\ result' = <<"target copy failed: ">> \o CallError(ctx, "load")
  /\ held' = releaseBoth(held)
  /\ leaked' = IF xfer.pstate = "done" THEN leaked ELSE Append(leaked, xfer)
  /\ xfer' = NoXfer
  /\ pc' = "record"
  /\ failedSides' = failedSides \cup {"target"}
  /\ UNCHANGED <<tables, idx, stats, runnerLocals, copyRet, runs, ops, tgt, now,
                 histRun, histTable, okRows, caller>>

\* a producer whose transfer has returned goes on, on a source connection
\* that the deferred Release has given back while the goroutine uses it.
\* What the goroutine finds is not decided by the program: the call it had
\* begun goes on as if the connection were its own, until it blocks in
\* w.Write; or CopyTo returns, with nothing left to send or with a failure
\* (the context is cancelled, the connection was closed or handed to
\* another user), and the goroutine closes the writer and returns; or, when the goroutine has not
\* yet read the connection out of the released handle, that read panics.
RemoveAt(s, i) == SubSeq(s, 1, i - 1) \o SubSeq(s, i + 1, Len(s))

LeakedStep ==
  /\ alive
  /\ \E i \in 1..Len(leaked) :
       LET x == leaked[i] IN
       \/ /\ x.pstate = "start"
          /\ ctx = "live"
          /\ leaked' = [leaked EXCEPT ![i] = prodBegin(x)]
       \/ /\ x.pstate = "start"
          /\ leaked' = [leaked EXCEPT ![i] = panicked(x)]
       \/ /\ x.pstate = "streaming"
          /\ x.todo /= <<>>
          /\ leaked' = [leaked EXCEPT ![i] = prodWrite(x)]
       \/ /\ x.pstate \in {"start", "streaming"}
          /\ leaked' = RemoveAt(leaked, i)
  /\ UNCHANGED <<pc, tables, idx, stats, runnerLocals, result, copyRet,
                 runs, ops,
                 faults, tgt, held, xfer, now, histRun, histTable, okRows,
                 failedSides, caller>>

\* Copy: addError or incrementTablesProcessed, then the next iteration
Record ==
  /\ pc = "record"
  /\ alive
  /\ stats' = recordOutcome(stats, result)
  /\ idx' = nextIndex(idx, result)
  /\ results' = Append(results, result)
  /\ okRows' = IF result = Nil THEN okRows + reported ELSE okRows
  /\ pc' = "loop"
  /\ columns' = <<>>
  /\ sourceQuery' = <<>>
  /\ targetQuery' = <<>>
  /\ result' = Nil
  /\ issued' = <<>>
  /\ before' = tgt
  /\ reported' = 0
  /\ loaded' = <<>>
  /\ failedSides' = {}
  /\ UNCHANGED <<tables, copyRet, runs, ops, faults, tgt, held, xfer, leaked,
                 now,
                 started, caller>>

\* variant: the summary is logged before the end time is stamped
FinishSummaryFirst ==
  /\ pc = "loop"
  /\ alive
  /\ idx > Len(tables)
  /\ summary' = printSummary(stats)
  /\ stats' = [stats EXCEPT !.EndTime = now]
  /\ now' = now + 1
  /\ copyRet' = [done |-> TRUE, err |-> copyReturn(stats)]
  /\ pc' = "idle"
  /\ UNCHANGED <<tables, idx, runnerLocals, result, runs, ops, faults, tgt,
                 held,
                 xfer, leaked, histRun, histTable, okRows, failedSides, ctx,
                 dryRet, command, src>>

\* Copy: after the loop, stamp EndTime, printSummary, return
Finish ==
  /\ pc = "loop"
  /\ alive
  /\ idx > Len(tables)
  /\ stats' = [stats EXCEPT !.EndTime = now]
  /\ now' = now + 1
  /\ summary' = printSummary(stats')
  /\ copyRet' = [done |-> TRUE, err |-> copyReturn(stats)]
  /\ pc' = "idle"
  /\ UNCHANGED <<tables, idx, runnerLocals, result, runs, ops, faults, tgt,
                 held,
                 xfer, leaked, histRun, histTable, okRows, failedSides, ctx,
                 dryRet, command, src>>

\* the caller cancels the context it gave to Copy (cmd.Context())
Cancel ==
  /\ pc /= "idle"
  /\ alive
  /\ ctx = "live"
  /\ faults < MaxFaults
  /\ faults' = faults + 1
  /\ ctx' = "cancelled"
  /\ UNCHANGED <<pc, tables, idx, stats, runnerLocals, result, copyRet, runs,
                 ops,
                 tgt, held, xfer, leaked, now, histRun, histTable, okRows,
                 failedSides, dryRet, command, src, summary>>

\* variant: the dry run goes through the tables as Copy's first step does
DryRunExecuting(list) ==
  /\ pc = "idle"
  /\ alive
  /\ ~dryRet.done
  /\ runs < MaxRuns
  /\ dryRet' = [done |-> TRUE, err |-> Nil]
  /\ tgt' = IF list /= <<>> /\ list[1].Truncate
            THEN ExecTruncate(tgt, truncateQuery(list[1])) ELSE tgt
  /\ UNCHANGED <<pc, tables, idx, stats, runnerLocals, result, copyRet, runs,
                 ops,
                 faults, held, xfer, leaked, now, histRun, histTable, okRows,
                 failedSides, ctx, command, src, summary>>

\* Engine.DryRun: the tables are listed to the log, nothing else happens; a
\* second dry run in a row would change nothing more.  Dry runs are followed
\* as long as the engine may still be asked to copy.
DryRun(list) ==
  /\ pc = "idle"
  /\ alive
  /\ ~dryRet.done
  /\ runs < MaxRuns
  /\ dryRet' = [done |-> TRUE, err |-> Nil]
  /\ UNCHANGED <<pc, tables, idx, stats, runnerLocals, result, copyRet, runs,
                 ops,
                 faults, tgt, held, xfer, leaked, now, histRun, histTable, okRows,
                 failedSides, ctx, command, src, summary>>

engine == <<pc, idx, stats, columns, sourceQuery, targetQuery, result,
            copyRet, runs, faults, ops, tgt, held, xfer, leaked, now,
            started, results, issued, before, reported, loaded, okRows,
            failedSides, ctx, dryRet, src, summary>>

\* Engine.Close: the deferred call of runCopy, which runs when the Copy or
\* DryRun that runCopy called has returned, and Close of an Engine value that
\* was made without NewEngine
RunCopyClose ==
  /\ \/ cliPc = "literal"
     \/ cliPc = "engine" /\ pc = "idle" /\ (copyRet.done \/ dryRet.done)
  /\ alive
  /\ conns' = Close(conns)
  /\ cliPc' = "closed"
  /\ UNCHANGED <<flags, file, config, cmdErr, output, dsn, tables, engine>>

\* the configurations a dry run is asked for: it only lists the tables, so
\* those of no table and of one table stand for all
DryRunLists == {list \in TableLists : Len(list) <= 1}

Next ==
  \/ pc = "idle" /\ \E list \in TableLists : Copy(list)
  \/ pc = "idle" /\ \E list \in DryRunLists : DryRun(list)
  \/ Cancel
  \/ StartTable
  \/ TruncateOk
  \/ TruncateFail
  \/ ColumnsOk
  \/ ColumnsFail
  \/ BuildQueries
  \/ AcquireSourceOk
  \/ AcquireSourceFail
  \/ AcquireTargetOk
  \/ AcquireTargetFail
  \/ ProdBegin
  \/ ProdBeginFail
  \/ ProdWrite
  \/ ProdFail
  \/ ProdFinish
  \/ CopyFromBegin
  \/ ConsRead
  \/ ConsEOF
  \/ ConsReadErr
  \/ ConsFail
  \/ LeakedStep
  \/ Record
  \/ Finish

Spec == Init /\ [][Next]_vars

\* ------------------------------------------- the query builders on their own
\* inputs of buildSourceCopyQuery and buildTargetCopyQuery: column lists,
\* transform maps (keys that are columns and one that is not) and filters
ColumnNames == {"id", "email", "name"}

ColumnLists == SeqsUpTo(ColumnNames, MaxCols)

Transformations ==
  {<<"hash">>, <<"redact">>, <<"anonymize">>, <<"nullify">>, <<"default">>,
   <<"$1", " + 1000">>, <<"HASH">>, <<"'fixed_value'">>,
   <<"$1", " || ", "$1">>}

TransformMaps ==
  UNION {[keys -> Transformations] : keys \in SUBSET {"id", "email", "ghost"}}

CompileTables ==
  [Schema : {"public"}, Table : {"users"}, Ignore : {<<>>},
   Transform : TransformMaps, Filter : {"", "active = true"},
   Truncate : {FALSE}]
  \cup
  [Schema : {"public"}, Table : {"users"},
   Ignore : {<<>>, <<"id">>, <<"id", "email">>},
   Transform : {NoTransform} \cup [{"id"} -> Transformations],
   Filter : {"", "active = true"}, Truncate : BOOLEAN]

\* the lists getTableColumns can return for a table: the columns of a
\* catalog (no name twice) that the table does not ignore
ResolvedLists(t) ==
  {c \in ColumnLists :
     /\ \A i, j \in 1..Len(c) : i /= j => c[i] /= c[j]
     /\ \A i \in 1..Len(c) : ~Contains(t.Ignore, c[i])}

\* a builder is about to be called on its own, with any column list, on an
\* engine that has done nothing ("compile"); or copyTable of one table has
\* truncated the target if asked to, has the column list of the resolver and
\* is about to build the queries ("build")
CompileInit ==
  /\ tables \in {<<t>> : t \in CompileTables}
  /\ \/ /\ pc = "compile"
        /\ columns \in ColumnLists
        /\ tgt = TargetInit
        /\ issued = <<>>
     \/ /\ pc = "build"
        /\ columns \in ResolvedLists(tables[1])
        /\ tgt = IF tables[1].Truncate
                 THEN ExecTruncate(TargetInit, truncateQuery(tables[1]))
                 ELSE TargetInit
        /\ issued = IF tables[1].Truncate THEN <<"truncate", "catalog">>
                    ELSE <<"catalog">>
  /\ idx = 1
  /\ stats = NewStats(0)
  /\ sourceQuery = <<>>
  /\ targetQuery = <<>>
  /\ result = Nil
  /\ copyRet = [done |-> FALSE, err |-> Nil]
  /\ runs = 1
  /\ faults = 0
  /\ ops = 1
  /\ held = [source |-> 0, target |-> 0]
  /\ xfer = NoXfer
  /\ leaked = <<>>
  /\ now = 1
  /\ started = tables
  /\ results = <<>>
  /\ before = TargetInit
  /\ reported = 0
  /\ loaded = <<>>
  /\ okRows = 0
  /\ failedSides = {}
  /\ ctx = "live"
  /\ dryRet = NoDryRun
  /\ cliPc = "engine"
  /\ flags = CliFlags
  /\ file = NoConfig
  /\ config = NoConfig
  /\ cmdErr = Nil
  /\ output = <<>>
  /\ dsn = ConnStrings(CliFlags)
  /\ conns = [source |-> "open", target |-> "open"]
  /\ src = SourceInit
  /\ summary = NoSummary

\* engine.buildSourceCopyQuery(table, columns)
CompileSource ==
  /\ pc = "compile"
  /\ LET s == buildSourceCopyQuery(table, columns)
     IN /\ sourceQuery' = s.query
        /\ result' = s.err
  /\ pc' = "source compiled"
  /\ UNCHANGED <<tables, idx, stats, columns, targetQuery, copyRet, runs, ops,
                 faults, tgt, held, xfer, leaked, now, histRun, histTable,
                 okRows, failedSides, caller>>

\* engine.buildTargetCopyQuery(table, columns)
CompileTarget ==
  /\ pc = "compile"
  /\ LET t == buildTargetCopyQuery(table, columns)
     IN /\ targetQuery' = t.query
        /\ result' = t.err
  /\ pc' = "target compiled"
  /\ UNCHANGED <<tables, idx, stats, columns, sourceQuery, copyRet, runs, ops,
                 faults, tgt, held, xfer, leaked, now, histRun, histTable,
                 okRows, failedSides, caller>>

CompileNext ==
  \/ CompileSource
  \/ CompileTarget
  \/ BuildQueries

CompileSpec == CompileInit /\ [][CompileNext]_vars

\* ------------------------------------------------- one transfer, to its end
\* the tables a transfer is begun for: those with a column to copy
TransferTables ==
  {list \in TableLists : Len(list) = 1 /\ getTableColumns(list[1]) /= <<>>}

\* copyTable of the only table of a first Copy has truncated (if asked),
\* resolved the columns and built the statements, and executeCopyWithProtocol
\* has both connections, the pipe and the goroutine
TransferInit ==
  /\ tables \in TransferTables
  /\ idx = 1
  /\ pc = "copyFrom"
  /\ stats = NewStats(0)
  /\ columns = getTableColumns(tables[1])
  /\ sourceQuery = buildSourceCopyQuery(tables[1], columns).query
  /\ targetQuery = buildTargetCopyQuery(tables[1], columns).query
  /\ result = Nil
  /\ copyRet = [done |-> FALSE, err |-> Nil]
  /\ runs = 1
  /\ faults = 0
  /\ ops = 1
  /\ tgt = IF tables[1].Truncate
           THEN ExecTruncate(TargetInit, truncateQuery(tables[1]))
           ELSE TargetInit
  /\ held = [source |-> 1, target |-> 1]
  /\ xfer = NewXfer(sourceQuery, 1)
  /\ leaked = <<>>
  /\ now = 1
  /\ started = tables
  /\ results = <<>>
  /\ issued = IF tables[1].Truncate THEN <<"truncate", "catalog", "compile">>
              ELSE <<"catalog", "compile">>
  /\ before = TargetInit
  /\ reported = 0
  /\ loaded = <<>>
  /\ okRows = 0
  /\ failedSides = {}
  /\ ctx = "live"
  /\ dryRet = NoDryRun
  /\ cliPc = "engine"
  /\ flags = CliFlags
  /\ file = NoConfig
  /\ config = NoConfig
  /\ cmdErr = Nil
  /\ output = <<>>
  /\ dsn = ConnStrings(CliFlags)
  /\ conns = [source |-> "open", target |-> "open"]
  /\ src = SourceInit
  /\ summary = NoSummary

\* the goroutine's steps: CopyTo goes on or returns
Producer ==
  ProdBegin \/ ProdBeginFail \/ ProdWrite \/ ProdFail \/ ProdFinish

\* CopyFrom's steps on the engine's thread: it reads on or returns
Consumer ==
  CopyFromBegin \/ ConsRead \/ ConsEOF \/ ConsReadErr \/ ConsFail

TransferNext ==
  \/ Producer
  \/ Consumer
  \/ Cancel
  \/ LeakedStep
  \/ Record
  \/ Finish
  \/ RunCopyClose

\* a goroutine that can run is run, and a database call that can return does
TransferSpec ==
  /\ TransferInit
  /\ [][TransferNext]_vars
  /\ WF_vars(Producer)
  /\ WF_vars(Consumer)

\* ------------------------------------------------- the command on its own
\* inputs of the pgcopy command: database sections, tables and schemas as a
\* YAML file can give them, valid or not, and the two connection flags
DbSections ==
  [Host : {"", "db.example.com"}, Port : {0, 5433},
   Database : {"", "app_db"}, Username : {"", "app_user"},
   Password : {<<>>, <<"source_pass">>, <<"${SOURCE_PASSWORD}">>},
   SSLMode : {"", "disable"}]

FullDatabase ==
  [Host |-> "db.example.com", Port |-> 0, Database |-> "app_db",
   Username |-> "app_user", Password |-> <<"${PGCOPY_UNSET}">>,
   SSLMode |-> ""]

RawTableDefs ==
  {t \in TableDefs : t.Name = "users"} \cup
  { [Name |-> "", Ignore |-> <<>>, Transform |-> NoTransform,
     Filter |-> "", Truncate |-> FALSE],
    [Name |-> "orders", Ignore |-> <<"id", "email">>,
     Transform |-> [c \in {"email"} |-> <<"hash">>],
     Filter |-> "", Truncate |-> FALSE] }

RawSchemas == [Name : {"", "public"}, Tables : SeqsUpTo(RawTableDefs, MaxTables)]

RawSchemaLists ==
  {l \in SeqsUpTo(RawSchemas, MaxSchemas) : TableCount(l) <= MaxTables}

OneTable ==
  <<[Name |-> "public", Tables |-> <<CHOOSE t \in TableDefs : t.Name = "users">>]>>

\* command lines that set the three flags, a connection string empty or not
FlagSets ==
  [source : {"", CliFlags.source}, target : {"", CliFlags.target},
   file : {CliFlags.file}, set : {CliFlags.set}]

\* command lines that set some of the three flags; a flag that is not set
\* leaves its variable at the default, the empty string
SomeFlags ==
  {[source |-> IF "source" \in given THEN CliFlags.source ELSE "",
    target |-> IF "target" \in given THEN CliFlags.target ELSE "",
    file |-> IF "file" \in given THEN CliFlags.file ELSE "",
    set |-> given] : given \in SUBSET CliFlags.set}

CommandInputs ==
  [file : [Source : {NoDatabase}, Target : {NoDatabase, FullDatabase},
           Schemas : RawSchemaLists],
   flags : {CliFlags}]
  \cup
  [file : [Source : {NoDatabase}, Target : {NoDatabase},
           Schemas : {c.Schemas : c \in Configs}],
   flags : {CliFlags}]
  \cup
  [file : [Source : DbSections, Target : DbSections, Schemas : {OneTable}],
   flags : FlagSets]
  \cup
  [file : [Source : {NoDatabase, FullDatabase},
           Target : {NoDatabase, FullDatabase}, Schemas : {OneTable}],
   flags : SomeFlags]
  \cup
  [file : {Unreadable, Malformed}, flags : {CliFlags}]

\* the command line has been parsed into the flag variables and the file
\* named by --file holds a configuration, cannot be parsed or cannot be read; or an Engine value has been made
\* without NewEngine, its connections nil or not (as TestEngine_Close does)
ConfigInit ==
  /\ \/ /\ \E in \in CommandInputs : file = in.file /\ flags = in.flags
        /\ cliPc = "start"
        /\ conns = [source |-> "nil", target |-> "nil"]
     \/ /\ file = [Source |-> NoDatabase, Target |-> NoDatabase,
                    Schemas |-> OneTable]
        /\ flags = CliFlags
        /\ cliPc = "literal"
        /\ conns \in [source : {"nil", "open"}, target : {"nil", "open"}]
  /\ config = NoConfig
  /\ cmdErr = Nil
  /\ output = <<>>
  /\ dsn = NoFlags
  /\ src = SourceInit
  /\ summary = NoSummary
  /\ pc = "idle"
  /\ tables = <<>>
  /\ idx = 1
  /\ stats = NewStats(0)
  /\ columns = <<>>
  /\ sourceQuery = <<>>
  /\ targetQuery = <<>>
  /\ result = Nil
  /\ copyRet = [done |-> FALSE, err |-> Nil]
  /\ runs = 0
  /\ faults = 0
  /\ ops = 0
  /\ tgt = TargetInit
  /\ held = [source |-> 0, target |-> 0]
  /\ xfer = NoXfer
  /\ leaked = <<>>
  /\ now = 1
  /\ started = <<>>
  /\ results = <<>>
  /\ issued = <<>>
  /\ before = TargetInit
  /\ reported = 0
  /\ loaded = <<>>
  /\ okRows = 0
  /\ failedSides = {}
  /\ ctx = "live"
  /\ dryRet = NoDryRun

\* the names of the required flags the command line did not set, as cobra
\* lists them; a flag set to the empty string is set
missingFlags ==
  LET notSet(name) == name \notin flags.set
  IN SelectSeq(RequiredFlags, notSet)

\* the names, each in quotes, with ", " between
quotedNames(names) ==
  Flatten([i \in 1..Len(names) |->
             IF i = 1 THEN <<"\"", names[i], "\"">>
             ELSE <<", ", "\"", names[i], "\"">>])

\* cobra checks the flags marked required before it calls runCopy
CheckFlags ==
  /\ cliPc = "start"
  /\ IF missingFlags /= <<>>
     THEN /\ cliPc' = "failed"
          /\ cmdErr' = <<"required flag(s) ">> \o quotedNames(missingFlags)
                        \o <<" not set">>
     ELSE /\ cliPc' = "runCopy"
          /\ UNCHANGED cmdErr
  /\ UNCHANGED <<flags, file, config, output, dsn, conns, tables, engine>>

\* runCopy: schema.LoadConfig(configFile)
RunCopyLoad ==
  /\ cliPc = "runCopy"
  /\ LET l == LoadConfig(file)
     IN /\ config' = l.config
        /\ output' = output \o l.out
        /\ IF l.err /= Nil
           THEN /\ cmdErr' = <<"failed to load configuration: ">> \o l.err
                /\ cliPc' = "failed"
           ELSE /\ UNCHANGED cmdErr
                /\ cliPc' = "loaded"
  /\ UNCHANGED <<flags, file, dsn, conns, tables, engine>>

\* runCopy: copy.NewEngine(sourceDB, targetDB)
RunCopyEngine ==
  /\ cliPc = "loaded"
  /\ dsn' = ConnStrings(flags)
  /\ \E sourceOk, targetOk \in BOOLEAN :
       LET e == NewEngine(sourceOk, targetOk)
       IN /\ conns' = e.conns
          /\ IF e.made
             THEN /\ cliPc' = "engine"
                  /\ UNCHANGED cmdErr
             ELSE /\ cliPc' = "no engine"
                  /\ cmdErr' = <<"failed to create copy engine: ">> \o e.err
  /\ UNCHANGED <<flags, file, config, output, tables, engine>>

ConfigNext ==
  \/ CheckFlags
  \/ RunCopyLoad
  \/ RunCopyEngine
  \/ RunCopyClose

ConfigSpec == ConfigInit /\ [][ConfigNext]_vars

\* ------------------------------------------------ GetAllTables on its own
\* the configurations GetAllTables is called on: Config values with schemas
\* of two names, with tables or without (as TestConfig_GetAllTables makes one)
ListSchemaNames == {"public", "analytics"}

ListSchemas == [Name : ListSchemaNames, Tables : SeqsUpTo(TableDefs, MaxTables)]

ListConfigs ==
  { c \in [Source : {NoDatabase}, Target : {NoDatabase},
            Schemas : SeqsUpTo(ListSchemas, MaxSchemas)] :
      TableCount(c.Schemas) <= MaxTables }

\* a Config value has been made and nothing has been done with it
ListInit ==
  /\ config \in ListConfigs
  /\ pc = "config"
  /\ tables = <<>>
  /\ idx = 1
  /\ stats = NewStats(0)
  /\ columns = <<>>
  /\ sourceQuery = <<>>
  /\ targetQuery = <<>>
  /\ result = Nil
  /\ copyRet = [done |-> FALSE, err |-> Nil]
  /\ runs = 0
  /\ faults = 0
  /\ ops = 0
  /\ tgt = TargetInit
  /\ held = [source |-> 0, target |-> 0]
  /\ xfer = NoXfer
  /\ leaked = <<>>
  /\ now = 1
  /\ started = <<>>
  /\ results = <<>>
  /\ issued = <<>>
  /\ before = TargetInit
  /\ reported = 0
  /\ loaded = <<>>
  /\ okRows = 0
  /\ failedSides = {}
  /\ ctx = "live"
  /\ dryRet = NoDryRun
  /\ cliPc = "not run"
  /\ flags = CliFlags
  /\ file = NoConfig
  /\ cmdErr = Nil
  /\ output = <<>>
  /\ dsn = NoFlags
  /\ conns = [source |-> "nil", target |-> "nil"]
  /\ src = SourceInit
  /\ summary = NoSummary

\* tables := config.GetAllTables()
CallGetAllTables ==
  /\ pc = "config"
  /\ tables' = GetAllTables(config)
  /\ pc' = "listed"
  /\ UNCHANGED <<idx, stats, runnerLocals, result, copyRet, runs, faults, ops,
                 tgt, held, xfer, leaked, now, histRun, histTable, okRows,
                 failedSides, caller>>

ListNext == CallGetAllTables

ListSpec == ListInit /\ [][ListNext]_vars

\* ------------------------------------------------------------- properties
inTable == pc \in TableSteps \/ pc = "record"

returned == pc = "record"

IsError(e) == e /= Nil

IsNil(e) == e = Nil

\* rows of the source table that the table's specification selects
ExpectedRows(t) ==
  LET wanted(row) == t.Filter = "" \/ Sat(t.Filter, row)
  IN SelectSeq(SrcRows(Key(t)), wanted)

\* C1: Copy attempts the tables GetAllTables returned once each and in their
\* order, one at a time: a table operation starts only when every earlier one
\* has returned (with or without an error), and when Copy returns every table
\* has been attempted.
C1_SequentialInOrder ==
  /\ Len(started) <= Len(tables)
  /\ started = SubSeq(tables, 1, Len(started))
  /\ Len(results) <= Len(started)
  /\ Len(started) <= Len(results) + 1
  /\ (pc \in TableSteps \/ pc = "record") <=> (Len(started) = Len(results) + 1)
  /\ copyRet.done => started = tables /\ Len(results) = Len(tables)

C1_Witness ==
  /\ copyRet.done
  /\ Len(tables) = 2
  /\ tables[1] /= tables[2]
  /\ IsError(results[1])
  /\ IsNil(results[2])

\* C2: whatever the tables' outcomes, Copy returns nil; every failure of the
\* run is in Stats.Errors and every table of the list has been attempted.
C2_CopyReturnsNil ==
  copyRet.done =>
    /\ copyRet.err = Nil
    /\ Len(results) = Len(tables)
    /\ LET failed == SelectSeq(results, IsError)
           n == Len(stats.Errors)
       IN /\ Len(failed) <= n
          /\ SubSeq(stats.Errors, n - Len(failed) + 1, n) = failed

C2_Witness ==
  /\ copyRet.done
  /\ Len(tables) = 2
  /\ IsError(results[1])
  /\ IsError(results[2])

\* C3: after a run over n tables, TablesProcessed + len(Errors) = n,
\* TablesProcessed counts the run's succeeded tables and Errors is the run's
\* failures in the order of the attempts.
C3_RunStats ==
  copyRet.done =>
    /\ stats.TablesProcessed + Len(stats.Errors) = Len(tables)
    /\ stats.TablesProcessed = Len(SelectSeq(results, IsNil))
    /\ stats.Errors = SelectSeq(results, IsError)

\* C4: RowsCopied is the sum of the row counts the target load returned for
\* the tables whose operation succeeded; a failed table adds nothing.
C4_RowsCopied ==
  /\ stats.RowsCopied = okRows + (IF returned /\ IsNil(result) THEN reported ELSE 0)
  /\ returned /\ IsError(result) => reported = 0

C4_Witness ==
  /\ copyRet.done
  /\ Len(tables) = 2
  /\ IsNil(results[1])
  /\ IsError(results[2])
  /\ stats.RowsCopied = MaxRows

\* C5: when a Copy invocation starts, the counters are zero and the error
\* list is empty.
C5_FreshStats ==
  (pc = "loop" /\ idx = 1 /\ started = <<>>) =>
    /\ stats.TablesProcessed = 0
    /\ stats.RowsCopied = 0
    /\ stats.Errors = <<>>

\* C6: for a table with truncate set, the truncate is the first step of the
\* table operation and is issued once; when it fails, nothing else is issued
\* for the table and the operation returns the error.
C6_TruncateFirst ==
  (inTable /\ table.Truncate) =>
    /\ pc /= "truncate" => issued /= <<>>
    /\ \A i \in 1..Len(issued) :
         issued[i] \in {"truncate", "truncate failed"} <=> i = 1
    /\ Contains(issued, "truncate failed") =>
         /\ issued = <<"truncate failed">>
         /\ returned
         /\ IsError(result)
         /\ tgt = before

C6_Witness ==
  /\ returned
  /\ table.Truncate
  /\ issued = <<"truncate failed">>
  /\ before[Key(table)] /= <<>>

truncated == inTable /\ table.Truncate /\ Contains(issued, "truncate")

\* C7: once the truncate of a table has succeeded, a failure of a later step
\* of the same table operation leaves the target table empty.
C7_EmptyAfterFailure ==
  (truncated /\ returned /\ IsError(result)) => tgt[Key(table)] = <<>>

C7_Witness ==
  /\ truncated
  /\ returned
  /\ result[1] = "target copy failed: "
  /\ before[Key(table)] /= <<>>
  /\ tgt[Key(table)] = <<>>

\* C8: after a successful table operation with truncate set the target table
\* holds exactly the rows extracted from the source, and as many rows as the
\* source table when there is no filter.
C8_TruncateThenExact ==
  (returned /\ table.Truncate /\ IsNil(result)) =>
    /\ tgt[Key(table)] = ExpectedRows(table)
    /\ table.Filter = "" => Len(tgt[Key(table)]) = Len(SrcRows(Key(table)))

C8_Witness ==
  /\ returned
  /\ table.Truncate
  /\ table.Filter = ""
  /\ IsNil(result)
  /\ before[Key(table)] = <<0>>
  /\ tgt[Key(table)] = SrcRows(Key(table))
  /\ Len(tgt[Key(table)]) = MaxRows

\* C9: for a table with truncate not set no truncate is issued, and after a
\* successful table operation the target table holds its previous rows
\* followed by the extracted rows.
C9_NoTruncateAppends ==
  (inTable /\ ~table.Truncate) =>
    /\ ~Contains(issued, "truncate")
    /\ ~Contains(issued, "truncate failed")
    /\ (returned /\ IsNil(result)) =>
         /\ tgt[Key(table)] = before[Key(table)] \o ExpectedRows(table)
         /\ Len(tgt[Key(table)]) = Len(before[Key(table)]) + reported

C9_Witness ==
  /\ returned
  /\ ~table.Truncate
  /\ IsNil(result)
  /\ before[Key(table)] /= <<>>
  /\ reported > 0

\* C10: a successful table operation loads exactly the source rows that
\* satisfy the table's filter, every source row when the filter is empty, and
\* the row count the transfer returns is the number of rows loaded.
C10_FilterRows ==
  (returned /\ IsNil(result)) =>
    /\ loaded = ExpectedRows(table)
    /\ table.Filter = "" => loaded = SrcRows(Key(table))
    /\ table.Filter /= "" =>
         \A r \in 1..MaxRows : Contains(loaded, r) <=> Sat(table.Filter, r)
    /\ reported = Len(loaded)

C10_Witness ==
  /\ returned
  /\ IsNil(result)
  /\ table.Filter /= ""
  /\ loaded /= <<>>
  /\ Len(loaded) < Len(SrcRows(Key(table)))

IsPrefix(a, b) == Len(a) <= Len(b) /\ a = SubSeq(b, 1, Len(a))

\* C11: in a transfer the consumer has read a prefix of what the producer
\* wrote, the two differing by the one chunk being handed over, and the
\* producer writes the extraction's rows in the extraction's order; when the
\* consumer reaches end-of-stream, and when the transfer has succeeded, what
\* was read is all that was written.
C11_StreamOrder ==
  /\ inTransfer =>
       /\ IsPrefix(xfer.recv, xfer.sent)
       /\ xfer.sent = xfer.recv \o xfer.slot
       /\ xfer.pstate /= "start" => IsPrefix(xfer.sent, ExecExtract(xfer.query))
       /\ (xfer.wclosed = "eof" /\ xfer.slot = <<>>) =>
            /\ xfer.recv = xfer.sent
            /\ xfer.recv = ExecExtract(xfer.query)
  /\ (returned /\ IsNil(result)) => loaded = ExecExtract(sourceQuery)

C11_Witness ==
  /\ pc = "loading"
  /\ xfer.wclosed = "eof"
  /\ xfer.slot = <<>>
  /\ Len(xfer.recv) = MaxRows
  /\ xfer.recv[1] /= xfer.recv[MaxRows]

\* C12 as it is worded: once the extraction of a transfer has failed, the
\* pipe is closed with the source's error and never shows a clean
\* end-of-stream, and the transfer returns an error that carries the
\* extraction's failure, whatever else happened.
C12_AlwaysSourceError ==
  /\ (inTransfer /\ "source" \in failedSides) =>
       /\ xfer.pstate = "done"
       /\ xfer.wclosed = "err"
       /\ xfer.werr[1] = "source copy failed: "
  /\ (returned /\ "source" \in failedSides) =>
       /\ IsError(result)
       /\ loaded = <<>>
       /\ Contains(result, "source copy failed: ")
       /\ result[Len(result)] /= "EOF"

\* C12, amended: once the extraction of a transfer has failed, the pipe is
\* closed with the source's error and never shows a clean end-of-stream; the
\* transfer returns an error and loads nothing, and unless the load failed on
\* its own, before it read the pipe to its end, that error carries the
\* extraction's failure.
C12_SourceFailureSeen ==
  /\ (inTransfer /\ "source" \in failedSides) =>
       /\ xfer.pstate = "done"
       /\ xfer.wclosed = "err"
       /\ xfer.werr[1] = "source copy failed: "
  /\ (returned /\ "source" \in failedSides) =>
       /\ IsError(result)
       /\ loaded = <<>>
       /\ tgt[Key(table)] = IF truncated THEN <<>> ELSE before[Key(table)]
       /\ "target" \notin failedSides =>
            /\ Contains(result, "source copy failed: ")
            /\ result[Len(result)] /= "EOF"

C12_Witness ==
  /\ returned
  /\ failedSides = {"source"}
  /\ Contains(issued, "extract")
  /\ Contains(result, "source copy failed: ")

\* C13: the error of a failed transfer names the side that failed: the source
\* and not the target when only the extraction failed, the target and not the
\* source when only the load failed.
C13_SideAttribution ==
  (returned /\ IsError(result)) =>
    /\ failedSides = {"source"} =>
         /\ Contains(result, "source copy failed: ")
         /\ ~Contains(result, "target copy failed: ")
    /\ failedSides = {"target"} =>
         /\ Contains(result, "target copy failed: ")
         /\ ~Contains(result, "source copy failed: ")

\* C14: once the context is cancelled no task of a transfer stays blocked: a
\* producer whose transfer has returned is not left inside w.Write, where
\* nothing it waits for can happen any more.
C14_CancelUnblocks ==
  ctx = "cancelled" =>
    \A i \in 1..Len(leaked) : leaked[i].pstate /= "writing"

\* tasks of transfers that exist: producers that have not returned, and the
\* consumer of the running transfer
Tasks ==
  Len(leaked) + (IF inTransfer /\ xfer.pstate /= "done" THEN 1 ELSE 0)
              + (IF inTransfer THEN 1 ELSE 0)

\* C15: at most two transfer tasks exist, both of the table being processed;
\* every table operation has a pipe of its own.
C15_TwoTasksOneConduit ==
  /\ Tasks <= 2
  /\ inTransfer => xfer.id = ops
  /\ \A i \in 1..Len(leaked) :
       /\ leaked[i].id = ops
       /\ \A j \in 1..Len(leaked) : i /= j => leaked[i].id /= leaked[j].id

\* pipes that exist: of the running transfer and of the producers left behind
Pipes == {xfer} \cup {leaked[i] : i \in 1..Len(leaked)}

\* C16: the pipe holds at most the one chunk of the write in progress: what is
\* written and not yet read is that chunk, and while it is there the producer
\* is inside w.Write and writes nothing more.
C16_BoundedConduit ==
  \A x \in Pipes :
    /\ Len(x.slot) <= 1
    /\ Len(x.sent) = Len(x.recv) + Len(x.slot)
    /\ x.slot /= <<>> <=> x.pstate = "writing"

C16_Witness ==
  /\ pc = "loading"
  /\ xfer.pstate = "writing"
  /\ xfer.todo /= <<>>
  /\ xfer.recv = <<>>

\* C17: a step in which DryRun returns changes nothing of the engine or the
\* databases (no statement is issued, no connection is taken, Stats is as it
\* was) and DryRun returns nil.
C17_DryRunNoEffects ==
  [][(~dryRet.done /\ dryRet'.done) =>
       /\ dryRet'.err = Nil
       /\ UNCHANGED <<stats, tgt, held, xfer, leaked, issued, faults, ops,
                      runs, copyRet, pc>>]_vars

C17_Witness ==
  /\ dryRet.done
  /\ copyRet.done
  /\ stats.RowsCopied > 0
  /\ tgt /= TargetInit

\* the projection of an extraction statement: what stands between
\* "COPY (SELECT " and " FROM "
Projection(q) == SubSeq(q, 2, FromIdx(q) - 1)

\* the fragment the claim gives a column
Fragment(t, c) ==
  IF c \in DOMAIN t.Transform
  THEN Join(expandTransformation(t.Transform[c], c)) \o " AS " \o c
  ELSE c

\* C18: for a non-empty column list the extraction statement is built and
\* its projection is one fragment per column, in the columns' order,
\* separated by ", ": "<expansion> AS <column>" for a column that is a key of
\* the transform map, the column's name otherwise; nothing is projected for a
\* transform key that is no column.
C18_Projection ==
  (pc = "source compiled" /\ columns /= <<>>) =>
    /\ result = Nil
    /\ LET p == Projection(sourceQuery)
       IN /\ Len(p) = 2 * Len(columns) - 1
          /\ \A i \in 1..Len(columns) : p[2 * i - 1] = Fragment(table, columns[i])
          /\ \A i \in 1..(Len(columns) - 1) : p[2 * i] = ", "

C18_Witness ==
  /\ pc = "source compiled"
  /\ Len(columns) = 2
  /\ columns[1] \notin DOMAIN table.Transform
  /\ columns[2] \in DOMAIN table.Transform
  /\ "ghost" \in DOMAIN table.Transform

RECURSIVE CommaList(_)
CommaList(frags) ==
  IF Len(frags) = 1 THEN frags[1]
  ELSE frags[1] \o ", " \o CommaList(Tail(frags))

\* C19: with a filter the extraction statement reads
\* "COPY (SELECT <fragments> FROM <schema>.<table> WHERE <filter>) TO STDOUT",
\* without one "COPY (SELECT <fragments> FROM <schema>.<table>) TO STDOUT",
\* and then no WHERE is written.
C19_FilterClause ==
  (pc = "source compiled" /\ columns /= <<>>) =>
    LET frags == CommaList([i \in 1..Len(columns) |-> Fragment(table, columns[i])])
        head == "COPY (SELECT " \o frags \o " FROM " \o table.Schema \o "."
                \o table.Table
    IN IF table.Filter /= ""
       THEN Join(sourceQuery) = head \o " WHERE " \o table.Filter \o ") TO STDOUT"
       ELSE /\ Join(sourceQuery) = head \o ") TO STDOUT"
            /\ ~Contains(sourceQuery, " WHERE ")

C19_Witness ==
  /\ pc = "source compiled"
  /\ table.Filter /= ""
  /\ Contains(sourceQuery, " WHERE ")
  /\ \E i \in 1..Len(columns) : columns[i] \in DOMAIN table.Transform

\* C20: with an empty column list either builder returns no statement and the
\* error "no columns to copy for table <schema>.<table>"; in copyTable the
\* table then fails with that error and no connection is taken, no pipe is
\* made and no extraction or load is issued.
C20_NoColumns ==
  columns = <<>> =>
    LET noColumns == "no columns to copy for table " \o table.Schema \o "."
                     \o table.Table
    IN /\ pc = "source compiled" =>
            sourceQuery = <<>> /\ Join(result) = noColumns
       /\ pc = "target compiled" =>
            targetQuery = <<>> /\ Join(result) = noColumns
       /\ pc \notin {"compile", "build", "source compiled", "target compiled"} =>
            /\ returned
            /\ Join(result) = "failed to build source copy query: " \o noColumns
            /\ sourceQuery = <<>>
            /\ targetQuery = <<>>
            /\ issued[Len(issued)] = "compile"
            /\ ~Contains(issued, "extract") /\ ~Contains(issued, "load")
            /\ xfer = NoXfer
            /\ held = [source |-> 0, target |-> 0]
            /\ tgt = IF table.Truncate
                     THEN ExecTruncate(before, truncateQuery(table))
                     ELSE before

C20_Witness ==
  /\ returned
  /\ columns = <<>>
  /\ table.Truncate
  /\ issued = <<"truncate", "catalog", "compile">>
  /\ tgt[Key(table)] = <<>> /\ before[Key(table)] /= <<>>
  /\ IsError(result)


\* the column names a load statement lists, between " (" and ") FROM STDIN"
LoadColumns(q) ==
  LET inner == SubSeq(q, 6, Len(q) - 1)
  IN [i \in 1..((Len(inner) + 1) \div 2) |-> inner[2 * i - 1]]

\* C21: for a non-empty column list the load statement is
\* "COPY <schema>.<table> (<names>) FROM STDIN" with the raw column names in
\* the columns' order, whatever the transform map and the filter are; when
\* both statements of a table are built the load statement lists the columns
\* the extraction projects, in the same order.
C21_LoadStatement ==
  LET names == CommaList(columns)
      load  == "COPY " \o table.Schema \o "." \o table.Table \o " (" \o names
               \o ") FROM STDIN"
  IN /\ (pc = "target compiled" /\ columns /= <<>>) =>
          (result = Nil /\ Join(targetQuery) = load)
     /\ (pc = "acquireSource" /\ columns /= <<>>) =>
          /\ Join(targetQuery) = load
          /\ LoadColumns(targetQuery) = columns
          /\ LET p == Projection(sourceQuery)
             IN /\ Len(p) = 2 * Len(columns) - 1
                /\ \A i \in 1..Len(columns) :
                     p[2 * i - 1] = Fragment(table, LoadColumns(targetQuery)[i])

C21_Witness ==
  /\ pc = "acquireSource"
  /\ Len(columns) = 2
  /\ \A i \in 1..Len(columns) : columns[i] \in DOMAIN table.Transform
  /\ table.Filter /= ""
  /\ Join(targetQuery) = "COPY public.users (" \o columns[1] \o ", "
                          \o columns[2] \o ") FROM STDIN"

\* what an extraction statement projects for the i-th column
Projected(i) == Projection(sourceQuery)[2 * i - 1]

\* C22: the five built-in names expand to exactly the documented SQL, the
\* column's name put where the expression reads it; redact and nullify give
\* the same text for every column; the names are matched case-sensitively,
\* so "HASH" is not the built-in.
C22_BuiltIns ==
  (pc = "source compiled" /\ columns /= <<>>) =>
    \A i \in 1..Len(columns) :
      LET c == columns[i]
      IN c \in DOMAIN table.Transform =>
           LET t == table.Transform[c]
           IN /\ t = <<"hash">> =>
                   Projected(i) = "encode(sha256(" \o c \o "::text::bytea), 'hex') AS " \o c
              /\ t = <<"redact">> => Projected(i) = "'***REDACTED***' AS " \o c
              /\ t = <<"anonymize">> =>
                   Projected(i) = "'anon-' || encode(sha256(" \o c
                                  \o "::text::bytea), 'hex') AS " \o c
              /\ t = <<"nullify">> => Projected(i) = "NULL AS " \o c
              /\ t = <<"default">> =>
                   Projected(i) = "COALESCE(" \o c \o ", NULL) AS " \o c
              /\ t = <<"HASH">> => Projected(i) = "HASH AS " \o c

C22_Witness ==
  /\ pc = "source compiled"
  /\ columns = <<"id", "email">>
  /\ {"id", "email"} \subseteq DOMAIN table.Transform
  /\ table.Transform[columns[1]] = <<"anonymize">>
  /\ table.Transform[columns[2]] = <<"HASH">>
  /\ Projected(1) = "'anon-' || encode(sha256(id::text::bytea), 'hex') AS id"

\* the tokens that are no built-in name
IsCustom(t) ==
  t \notin {<<"hash">>, <<"redact">>, <<"anonymize">>, <<"nullify">>, <<"default">>}

\* the text of a token with every "$1" replaced by a column name
RECURSIVE Substituted(_, _)
Substituted(t, c) ==
  IF t = <<>> THEN ""
  ELSE (IF Head(t) = "$1" THEN c ELSE Head(t)) \o Substituted(Tail(t), c)

\* C23: a token that is no built-in name is custom SQL: every "$1" in it is
\* replaced by the column's name and the rest is kept; a token without "$1"
\* is projected as written; the expansion never fails.
C23_CustomSQL ==
  (pc = "source compiled" /\ columns /= <<>>) =>
    /\ result = Nil
    /\ \A i \in 1..Len(columns) :
         LET c == columns[i]
         IN (c \in DOMAIN table.Transform /\ IsCustom(table.Transform[c])) =>
              LET t == table.Transform[c]
              IN /\ Projected(i) = Substituted(t, c) \o " AS " \o c
                 /\ ~Contains(t, "$1") => Projected(i) = Join(t) \o " AS " \o c

C23_Witness ==
  /\ pc = "source compiled"
  /\ Len(columns) = 2
  /\ columns[1] \in DOMAIN table.Transform
  /\ columns[2] \in DOMAIN table.Transform
  /\ table.Transform[columns[1]] = <<"$1", " || ", "$1">>
  /\ table.Transform[columns[2]] = <<"'fixed_value'">>
  /\ Projected(1) = columns[1] \o " || " \o columns[1] \o " AS " \o columns[1]
  /\ Projected(2) = "'fixed_value' AS " \o columns[2]

\* yaml.Unmarshal has filled a Config from the file
parsed == file \notin {Unreadable, Malformed}

\* the command has got past LoadConfig of a parsed file, or has failed in it
afterLoad ==
  /\ parsed
  /\ missingFlags = <<>>
  /\ cliPc \in {"failed", "loaded", "engine"}

accepted == missingFlags = <<>> /\ cliPc \in {"loaded", "engine"}

\* what the claim asks of the schemas of a configuration
WellFormed(schemas) ==
  /\ Len(schemas) >= 1
  /\ \A i \in 1..Len(schemas) :
       /\ schemas[i].Name /= ""
       /\ Len(schemas[i].Tables) >= 1
       /\ \A j \in 1..Len(schemas[i].Tables) :
            LET t == schemas[i].Tables[j]
            IN /\ t.Name /= ""
               /\ \A k \in 1..Len(t.Ignore) : t.Ignore[k] \notin DOMAIN t.Transform

\* C24: a configuration LoadConfig accepts has at least one schema, every
\* schema a name and at least one table, every table a name, and no column
\* both ignored and transformed; a file that breaks one of these is rejected:
\* LoadConfig returns an error and no configuration.
C24_AcceptedConfig ==
  afterLoad =>
    /\ accepted => (config /= NoConfig /\ WellFormed(config.Schemas)
                     /\ config.Schemas = file.Schemas /\ cmdErr = Nil)
    /\ ~WellFormed(file.Schemas) =>
         (cliPc = "failed" /\ config = NoConfig /\ IsError(cmdErr))

C24_Witness ==
  /\ parsed
  /\ cliPc = "failed"
  /\ config = NoConfig
  /\ Len(file.Schemas) = 2
  /\ WellFormed(<<file.Schemas[1]>>)
  /\ Join(cmdErr) = "failed to load configuration: invalid configuration: "
                     \o "table 'orders' in schema 'public': column 'email' "
                     \o "cannot be both ignored and transformed"

Sides == {"Source", "Target"}

Section(c, side) == IF side = "Source" THEN c.Source ELSE c.Target

absent(db) == db.Host = "" /\ db.Database = "" /\ db.Username = ""

complete(db) == db.Host /= "" /\ db.Database /= "" /\ db.Username /= ""

\* C26: a database section is absent (host, database and username all
\* empty: valid, and validation changes nothing in it) or has all three, and
\* anything between makes LoadConfig fail; a section with all three gets port
\* 5432 when it names none and ssl mode "prefer" when it names none, and
\* keeps the values it names.
C26_DatabaseSection ==
  afterLoad =>
    /\ (\E side \in Sides :
          ~absent(Section(file, side)) /\ ~complete(Section(file, side)))
         => (cliPc = "failed" /\ config = NoConfig /\ IsError(cmdErr))
    /\ accepted =>
         \A side \in Sides :
           LET in  == Section(file, side)
               out == Section(config, side)
           IN /\ out.Host = in.Host
              /\ out.Database = in.Database
              /\ out.Username = in.Username
              /\ absent(in) => (out.Port = in.Port /\ out.SSLMode = in.SSLMode)
              /\ complete(in) =>
                   /\ out.Port = (IF in.Port = 0 THEN 5432 ELSE in.Port)
                   /\ out.SSLMode = (IF in.SSLMode = "" THEN "prefer"
                                      ELSE in.SSLMode)

C26_Witness ==
  /\ cliPc = "loaded"
  /\ complete(file.Source) /\ file.Source.Port = 0 /\ file.Source.SSLMode = ""
  /\ config.Source.Port = 5432 /\ config.Source.SSLMode = "prefer"
  /\ complete(file.Target)
  /\ config.Target.Port = 5433 /\ config.Target.SSLMode = "disable"

\* tables of the schemas before the i-th
Before(schemas, i) == TableCount(SubSeq(schemas, 1, i - 1))

\* C27: GetAllTables gives one TableInfo for every table of every schema,
\* schema after schema and table after table as the configuration lists
\* them: the length is the sum of the schemas' table counts and every entry
\* carries its schema's name and the table's name, ignore list, transform
\* map, filter and truncate flag as they are.
C27_AllTables ==
  pc = "listed" =>
    /\ Len(tables) = TableCount(config.Schemas)
    /\ \A i \in 1..Len(config.Schemas) :
         \A j \in 1..Len(config.Schemas[i].Tables) :
           LET t  == config.Schemas[i].Tables[j]
               ti == tables[Before(config.Schemas, i) + j]
           IN /\ ti.Schema = config.Schemas[i].Name
              /\ ti.Table = t.Name
              /\ ti.Ignore = t.Ignore
              /\ ti.Transform = t.Transform
              /\ ti.Filter = t.Filter
              /\ ti.Truncate = t.Truncate

C27_Witness ==
  /\ pc = "listed"
  /\ Len(config.Schemas) = 2
  /\ config.Schemas[1].Name = "public"
  /\ config.Schemas[2].Name = "analytics"
  /\ Len(tables) = 2
  /\ tables[1].Schema = "public" /\ tables[1].Table = "users"
  /\ tables[1].Ignore = <<"password_hash">> /\ tables[1].Truncate
  /\ tables[2].Schema = "analytics" /\ tables[2].Table = "orders"
  /\ tables[2].Filter /= "" /\ tables[2].Transform /= NoTransform

\* the file with both passwords taken out
WithoutPasswords(c) ==
  [c EXCEPT !.Source.Password = <<>>, !.Target.Password = <<>>]

\* C28: LoadConfig writes no password to standard output: what it prints for
\* a file is what it prints for the same file without its passwords.
C28_PasswordsHidden ==
  afterLoad => output = LoadConfig(WithoutPasswords(file)).out

\* the connection string the documentation gives a side: the flag when it is
\* given, the one built from the file's section otherwise
Documented(side) ==
  LET flag == IF side = "Source" THEN flags.source ELSE flags.target
  IN IF flag /= "" THEN flag
     ELSE Join(BuildConnectionString(Section(LoadConfig(file).config, side)))

Given(side) == IF side = "Source" THEN dsn.source ELSE dsn.target

\* C25: each side connects with its flag when the flag is given and with the
\* connection string built from the file's section otherwise, the two sides
\* decided apart; a command without flags whose file has both sections runs
\* on the file's two connections.
C25_ConnectionPrecedence ==
  (/\ cliPc \in {"failed", "engine"}
   /\ "file" \in flags.set
   /\ LoadConfig(file).err = Nil
   /\ \A side \in Sides : Documented(side) /= "")
  => /\ cliPc /= "failed"
     /\ \A side \in Sides : Given(side) = Documented(side)

\* the stage of copyTable a logged step belongs to
Stage(step) ==
  CASE step \in {"truncate", "truncate failed"} -> 1
    [] step \in {"catalog", "catalog failed"} -> 2
    [] step = "compile" -> 3
    [] OTHER -> 4

\* C29: a table operation goes Pending, (Truncating), ResolvingColumns,
\* CompilingQueries, Streaming, then Done or Failed: the steps issued so far
\* are in that order and none is issued twice, the truncate is there only
\* for a table that asks for it, a step is entered only after the one before
\* it succeeded, a failed step is the last and its error is what the table
\* operation returns, and every finished table operation was recorded once,
\* as a processed table or as one error.
C29_TableLifecycle ==
  /\ inTable =>
       /\ \A i \in 1..Len(issued) : \A j \in (i + 1)..Len(issued) :
            issued[i] /= issued[j]
       /\ \A i \in 1..(Len(issued) - 1) :
            LET here == Stage(issued[i])
                next == Stage(issued[i + 1])
            IN here <= next /\ (here = next => here = 4)
       /\ \A i \in 1..Len(issued) :
            /\ Stage(issued[i]) = 1 => (table.Truncate /\ i = 1)
            /\ issued[i] \in {"truncate failed", "catalog failed"} =>
                 (i = Len(issued) /\ returned /\ IsError(result))
       /\ (table.Truncate /\ pc /= "truncate") => Contains(issued, "truncate")
                                                  \/ Contains(issued, "truncate failed")
       /\ pc = "columns" => ~(\E i \in 1..Len(issued) : Stage(issued[i]) >= 2)
       /\ pc = "build" => issued[Len(issued)] = "catalog"
       /\ pc \in {"acquireSource", "acquireTarget"} =>
            (issued[Len(issued)] = "compile" /\ result = Nil)
       /\ inTransfer => (Contains(issued, "compile") /\ result = Nil)
       /\ (returned /\ Contains(issued, "truncate failed")) =>
            result[1] = "failed to truncate table "
       /\ (returned /\ Contains(issued, "catalog failed")) =>
            result[1] = "failed to get table columns: "
       /\ (returned /\ IsNil(result)) =>
            (Contains(issued, "extract") /\ Contains(issued, "load"))
  /\ Len(stats.Errors) + stats.TablesProcessed
       = ops - (IF inTable THEN 1 ELSE 0)

C29_Witness ==
  /\ returned
  /\ table.Truncate
  /\ issued = <<"truncate", "catalog failed">>
  /\ Join(result) = "failed to get table columns: " \o Join(DbError("catalog"))
  /\ stats.TablesProcessed = 1

\* C30: a transfer returns success only when both sides succeeded: the
\* extraction ended without error and the load committed every row the
\* extraction gave, in its order; once the extraction has failed the
\* transfer returns an error and adds no rows, whatever the deferred close of
\* the pipe does afterwards.
C30_SuccessMeansBoth ==
  /\ (returned /\ IsNil(result)) =>
       /\ failedSides = {}
       /\ loaded = ExecExtract(sourceQuery)
       /\ reported = Len(ExecExtract(sourceQuery))
  /\ (returned /\ failedSides /= {}) =>
       /\ IsError(result)
       /\ reported = 0
       /\ loaded = <<>>
       /\ tgt[Key(table)] \in {before[Key(table)], <<>>}
  /\ (pc = "loading" /\ "source" \in failedSides) => xfer.wclosed = "err"

C30_Witness ==
  /\ returned
  /\ "source" \in failedSides
  /\ IsError(result)
  /\ Contains(result, "source copy failed: ")
  /\ ExecExtract(sourceQuery) /= <<>>
  /\ stats.RowsCopied > 0

\* C31: when the transfer has returned, on success and on every failure, its
\* producer has returned too; no producer is still in its extraction on a
\* source connection that has gone back to the pool.
C31_ProducerJoined ==
  /\ ~inTransfer => leaked = <<>>
  /\ held.source = 0 =>
       \A i \in 1..Len(leaked) : leaked[i].pstate \notin {"streaming", "writing"}

\* position of a column in the source catalog of the current table
Ordinal(c) ==
  CHOOSE i \in 1..Len(SrcCatalog(Key(table))) : SrcCatalog(Key(table))[i] = c

\* the column resolver of the current table has returned a list
resolved == inTable /\ Contains(issued, "catalog")

\* C34: the resolver returns the catalog's columns of the table that are not
\* in its ignore list, in the catalog's order: no ignored column, every other
\* catalog column, relative order kept; an ignored column is in neither
\* statement.
C34_ResolvedColumns ==
  resolved =>
    LET catalog == SrcCatalog(Key(table))
    IN /\ \A i \in 1..Len(columns) :
            /\ Contains(catalog, columns[i])
            /\ ~Contains(table.Ignore, columns[i])
       /\ \A i \in 1..Len(catalog) :
            ~Contains(table.Ignore, catalog[i]) => Contains(columns, catalog[i])
       /\ \A i \in 1..(Len(columns) - 1) :
            Ordinal(columns[i]) < Ordinal(columns[i + 1])
       /\ \A k \in 1..Len(table.Ignore) :
            /\ ~Contains(sourceQuery, table.Ignore[k])
            /\ ~Contains(targetQuery, table.Ignore[k])

C34_Witness ==
  /\ inTransfer
  /\ table.Ignore = <<"password_hash">>
  /\ columns = <<"id", "email">>
  /\ Contains(targetQuery, "email")
  /\ ~Contains(targetQuery, "password_hash")

\* C35: when the catalog query fails the table operation fails with the
\* resolver's error, and no statement is built and no transfer begun; when it
\* succeeds with nothing to transfer the resolver has returned the empty
\* list without error, the builders were called, and the table fails with
\* the builder's no-columns error.
C35_ResolverFailure ==
  /\ (inTable /\ Contains(issued, "catalog failed")) =>
       /\ returned
       /\ result[1] = "failed to get table columns: "
       /\ ~Contains(issued, "compile")
       /\ ~Contains(issued, "extract") /\ ~Contains(issued, "load")
       /\ sourceQuery = <<>> /\ targetQuery = <<>>
       /\ xfer = NoXfer
  /\ (resolved /\ columns = <<>>) =>
       /\ pc \in {"build", "record"}
       /\ returned =>
            /\ issued[Len(issued)] = "compile"
            /\ Join(result) = "failed to build source copy query: "
                               \o "no columns to copy for table "
                               \o table.Schema \o "." \o table.Table

C35_Witness ==
  /\ returned
  /\ resolved
  /\ columns = <<>>
  /\ table.Ignore = <<"id", "user_id">>
  /\ Join(result) = "failed to build source copy query: "
                     \o "no columns to copy for table public.orders"

\* C37: the transfer gives back every connection it took, once: it holds the
\* source connection alone only while it asks for the target's, both during
\* the transfer and none before and after; when the target's cannot be had
\* the source's is given back and neither extraction nor load is begun.
C37_ConnectionsReleased ==
  /\ held.source \in {0, 1} /\ held.target \in {0, 1}
  /\ pc = "acquireTarget" => held = [source |-> 1, target |-> 0]
  /\ inTransfer => held = [source |-> 1, target |-> 1]
  /\ pc \notin {"acquireTarget", "copyFrom", "loading"} =>
       held = [source |-> 0, target |-> 0]
  /\ (returned /\ result /= Nil
      /\ result[1] = "failed to acquire target connection: ") =>
       /\ ~Contains(issued, "extract") /\ ~Contains(issued, "load")
       /\ xfer = NoXfer

C37_Witness ==
  /\ inTransfer
  /\ idx = 2
  /\ results /= <<>>
  /\ IsError(results[1])
  /\ results[1][1] = "failed to acquire target connection: "
  /\ held = [source |-> 1, target |-> 1]

\* the current table with its ignore list and truncate flag taken out
Essential(t) == [t EXCEPT !.Ignore = <<>>, !.Truncate = FALSE]

\* C38: the two statements are decided by schema, table, transform map,
\* filter and column list alone: they are what the builders give for the
\* same table without its ignore list and truncate flag, a column of the
\* list is projected even when the ignore list names it, and the statements
\* built together are the ones built one at a time.
C38_Deterministic ==
  columns /= <<>> =>
    /\ pc \in {"source compiled", "acquireSource"} =>
         /\ sourceQuery = buildSourceCopyQuery(Essential(table), columns).query
         /\ Len(Projection(sourceQuery)) = 2 * Len(columns) - 1
         /\ \A i \in 1..Len(columns) : Projected(i) = Fragment(table, columns[i])
    /\ pc \in {"target compiled", "acquireSource"} =>
         /\ targetQuery = buildTargetCopyQuery(Essential(table), columns).query
         /\ LoadColumns(targetQuery) = columns

C38_Witness ==
  /\ pc = "source compiled"
  /\ table.Truncate
  /\ table.Ignore = <<"id", "email">>
  /\ columns = <<"email", "id">>
  /\ "id" \in DOMAIN table.Transform
  /\ Projected(1) = "email"
  /\ sourceQuery = buildSourceCopyQuery(Essential(table), columns).query

\* C36: the engine never changes the source database: whatever Copy and
\* DryRun calls were made, and however they went, the source's tables hold
\* the rows they held when the engine was made; what changes is the target.
C36_SourceUntouched ==
  /\ src = SourceInit
  /\ \A k \in DBTables : src[k] = SrcRows(k)

C36_Witness ==
  /\ copyRet.done
  /\ runs = 2
  /\ tgt /= TargetInit
  /\ \E k \in DBTables : tgt[k] = <<>>
  /\ stats.RowsCopied > 0
  /\ stats.Errors /= <<>>
  /\ src = SourceInit

\* C39: when Copy has returned, the end time is the clock's last reading,
\* taken after the last table, and the summary was logged after it: it gives
\* the final tables processed, rows copied and error count, the errors in
\* the order they were recorded, and the duration from start to end time,
\* which is not negative; no summary is logged while tables remain.
C39_Summary ==
  /\ (runs > 0 /\ ~copyRet.done) => summary = NoSummary
  /\ copyRet.done =>
       /\ summary.logged
       /\ idx = Len(tables) + 1
       /\ stats.EndTime = now - 1
       /\ summary.tables_processed = stats.TablesProcessed
       /\ summary.rows_copied = stats.RowsCopied
       /\ summary.errors = Len(stats.Errors)
       /\ summary.listed = stats.Errors
       /\ summary.duration = stats.EndTime - stats.StartTime
       /\ summary.duration >= 0
       /\ runs = 1 => summary.listed = SelectSeq(results, IsError)

C39_Witness ==
  /\ copyRet.done
  /\ runs = 1
  /\ Len(tables) = 2
  /\ summary.tables_processed = 1
  /\ summary.errors = 1
  /\ summary.rows_copied > 0
  /\ summary.duration > 0

\* C40: NewEngine leaves no connection open when it returns no engine: when
\* the target's connection fails the source's has been closed; Close closes
\* the connections that are not nil and leaves nil ones alone, whichever of
\* the two are nil.
C40_NoLeak ==
  /\ cliPc = "no engine" =>
       /\ conns.source /= "open" /\ conns.target /= "open"
       /\ IsError(cmdErr)
       /\ cmdErr[2] = "failed to connect to target database: " =>
            conns = [source |-> "closed", target |-> "nil"]
       /\ cmdErr[2] = "failed to connect to source database: " =>
            conns = [source |-> "nil", target |-> "nil"]
  /\ cliPc = "engine" => conns = [source |-> "open", target |-> "open"]
  /\ cliPc = "closed" => (conns.source /= "open" /\ conns.target /= "open")

C40_Witness ==
  /\ cliPc = "no engine"
  /\ conns = [source |-> "closed", target |-> "nil"]
  /\ Join(cmdErr) = "failed to create copy engine: "
                     \o "failed to connect to target database: "
                     \o Join(DbError("connect"))

\* C32: only the engine's own thread writes Stats: at every moment, also
\* while a producer goroutine runs or is left behind, the counters and the
\* error list are what that thread has recorded: the rows of the loads that
\* returned, and one entry, processed or error, for each finished table.
C32_StatsSingleWriter ==
  /\ stats.RowsCopied = okRows + (IF returned /\ IsNil(result) THEN reported ELSE 0)
  /\ inTransfer => stats.RowsCopied = okRows
  /\ Len(stats.Errors) + stats.TablesProcessed
       = ops - (IF inTable THEN 1 ELSE 0)

C32_Witness ==
  /\ pc = "loading"
  /\ xfer.pstate = "writing"
  /\ xfer.sent /= <<>>
  /\ stats.RowsCopied > 0
  /\ stats.RowsCopied = okRows

\* C33: the producer closes the writer on every way out: once its extraction
\* has returned the writer is closed, with the extraction's error if it had
\* one, and the consumer of such a transfer does not wait for good: the
\* transfer returns.
C33_WriterClosed ==
  /\ [](inTransfer =>
         /\ xfer.pstate = "done" => xfer.wclosed \in {"eof", "err"}
         /\ (xfer.pstate = "done" /\ "source" \in failedSides) =>
              (xfer.wclosed = "err" /\ xfer.werr[1] = "source copy failed: "))
  /\ ((inTransfer /\ xfer.pstate = "done") ~> returned)

C33_Witness ==
  /\ pc = "loading"
  /\ xfer.pstate = "done"
  /\ xfer.wclosed = "err"
  /\ xfer.recv /= <<>>

====
